---- MODULE Spec2Model ----
(***************************************************************************)
(* A model of the clip timeline and the frame sampler of                   *)
(* src/src/video_processor.py (detect_clips, merge_clips, split_clip,      *)
(* extract_frames_for_clip), together with the identity assignment of      *)
(* src/src/db_manager.py (insert_clip).                                    *)
(*                                                                         *)
(* Times.  Every time value the program handles here starts as a decimal   *)
(* text "W.F" (one fractional digit) that Python's float() turns into the  *)
(* nearest binary64 number.  The timeline only compares, copies, and takes *)
(* min/max of such values, so a time is kept as the integer 10*W+F (its    *)
(* number of tenths): float() is strictly increasing on these texts, so    *)
(* comparisons of the integers are the comparisons of the floats.  The     *)
(* frame sampler does arithmetic on them; there the integer is converted   *)
(* to the binary64 value (ToFloat) and the arithmetic is binary64.         *)
(*                                                                         *)
(* Optional values.  Python's Optional[T] is a set with at most one        *)
(* element: None is {} and a value x is {x}.                               *)
(***************************************************************************)
EXTENDS Integers, Sequences, FiniteSets, TLC

\* ------------------------------------------------------------------ bounds
\* largest clip identity the persistence collaborator hands out
MaxId == 3
\* most clips the caller keeps in its working list
MaxClips == 3

\* the times the environment supplies (boundaries, split times), in tenths of a second
Times == {0, 3, 5, 10}
\* the videos of the import collaborator: one of 1.0 s and an empty one
Videos == (1 :> [duration |-> 10]) @@ (2 :> [duration |-> 0])
VideoIds == DOMAIN Videos
\* scene_threshold arguments, in tenths (0.4 is the default)
Thresholds == {0, 4, 10}

None == {}
Some(x) == {x}
Val(o) == CHOOSE x \in o : TRUE

VARIABLES
    videos,   \* video_id -> [duration]: the Video objects of the import collaborator
    detected, \* the videos whose detect_clips result is in the working list
    clips,    \* the caller's working clip list (a Python list of Clip)
    last,     \* the last call: operation, arguments, outcome, list before it, external calls
    heap,     \* the ROI objects the caller holds: object -> its fields
    rois,     \* ROIManager.rois: the list of the objects the store holds
    request,  \* the recognition call to be made, with the engine's answers to it
    listed,   \* the list the caller got from list_rois, if it holds one
    db        \* the rows of the tables Videos, Clips and Watermarks

vars == <<videos, detected, clips, last, heap, rois, request, listed, db>>
\* the variables of the ROI store, of the recognition calls and of the database
ocrVars == <<heap, rois, request, listed, db>>

\* ------------------------------------------------------------------ AppError
\* AppError(user_message, internal_message): the two texts the exception carries
AppError(user_message, internal_message) ==
    [user_message |-> user_message, internal_message |-> internal_message]

\* ------------------------------------------------------------------ Clip
\* Clip.__init__: clip_id starts unassigned, file_path defaults to None
Clip(video_id, start_time, end_time) ==
    [clip_id |-> None, video_id |-> video_id, start_time |-> start_time,
     end_time |-> end_time, file_path |-> None]

\* ------------------------------------------------------------------ helpers
RECURSIVE Insert(_, _)
\* x inserted after the last element <= x of the ascending sequence s
Insert(s, x) ==
    IF s = <<>> THEN <<x>>
    ELSE IF x < Head(s) THEN <<x>> \o s
    ELSE <<Head(s)>> \o Insert(Tail(s), x)

RECURSIVE sorted(_)
\* Python's sorted() on a list of numbers: ascending, stable
sorted(s) ==
    IF s = <<>> THEN <<>>
    ELSE Insert(sorted(SubSeq(s, 1, Len(s) - 1)), s[Len(s)])

\* a remove that removes nothing
ListKeep(s, x) == s
\* list.remove(x): the list without its first element equal to x.  Clip defines no
\* __eq__, so equality is identity; a clip removed by merge or split carries an assigned
\* clip_id, which no other clip of the list carries, so equal fields mean the same object.
ListRemove(s, x) ==
    LET hits == {i \in 1..Len(s) : s[i] = x}
        i == CHOOSE k \in hits : \A j \in hits : k <= j
    IN  SubSeq(s, 1, i - 1) \o SubSeq(s, i + 1, Len(s))

Min(S) == CHOOSE x \in S : \A y \in S : x <= y
Max(S) == CHOOSE x \in S : \A y \in S : x >= y

\* ------------------------------------------------------------------ scene detector report
\* The report is the detector's stderr text, kept as its tokens: a timestamp marker
\* followed by a value with a fractional part ("pts_time:2.5"), a marker followed by a
\* whole number ("pts_time:2"), or any other text.
Tokens ==
    {[kind |-> "noise", whole |-> 0, frac |-> 0]}
    \cup {[kind |-> "frac", whole |-> t \div 10, frac |-> t % 10] : t \in Times}
    \cup {[kind |-> "int", whole |-> 2, frac |-> 0]}
\* the reports: at most two tokens
Reports == {<<>>} \cup {<<a>> : a \in Tokens} \cup {<<a, b>> : a, b \in Tokens}

\* re.finditer(r"pts_time:(\d+\.\d+)", ...): the marker must be followed by digits, a dot
\* and digits
Matches(tok) == tok.kind = "frac"
\* float(m.group(1)) of a matching token, in tenths
TokenTime(tok) == 10 * tok.whole + tok.frac

RECURSIVE FindAll(_)
\* the values of the matches, in report order
FindAll(report) ==
    IF report = <<>> THEN <<>>
    ELSE IF Matches(Head(report)) THEN <<TokenTime(Head(report))>> \o FindAll(Tail(report))
    ELSE FindAll(Tail(report))

\* number of timestamp markers of the report, whatever the form of their value
Markers(report) == Cardinality({i \in 1..Len(report) : report[i].kind \in {"frac", "int"}})

\* the boundaries in report order, not sorted
PtsTimesUnsorted(report) == FindAll(report)
\* pts_times = sorted(float(m.group(1)) for m in re.finditer(...))
PtsTimes(report) == sorted(FindAll(report))

\* ------------------------------------------------------------------ detect_clips
RECURSIVE BuildClips(_, _, _, _)
\* the loop of detect_clips: one clip (prev, t) per boundary, then (prev, duration)
BuildClips(video_id, duration, pts_times, prev) ==
    IF pts_times = <<>> THEN <<Clip(video_id, prev, duration)>>
    ELSE <<Clip(video_id, prev, Head(pts_times))>>
         \o BuildClips(video_id, duration, Tail(pts_times), Head(pts_times))

\* a threshold check that admits both ends of the interval
ThresholdClosed(scene_threshold) == 0 <= scene_threshold /\ scene_threshold <= 10
\* not (0.0 < scene_threshold < 1.0) raises ValueError
ThresholdOk(scene_threshold) == 0 < scene_threshold /\ scene_threshold < 10

\* detect_clips(video, scene_threshold), the detector exiting with exit_ok and report
DetectClips(v, scene_threshold, exit_ok, report) ==
    /\ v \notin detected
    /\ Len(clips) + Len(FindAll(report)) + 1 <= MaxClips
    /\ IF ~ThresholdOk(scene_threshold)
       THEN /\ last' = [op |-> "detect", outcome |-> "ValueError", pre |-> clips,
                        calls |-> <<>>,
                        arg |-> [video |-> v, scene_threshold |-> scene_threshold],
                        ret |-> <<>>]
            /\ UNCHANGED <<ocrVars, videos, detected, clips>>
       ELSE IF ~exit_ok
       \* internal_message=e.stderr: the report of the failed detector
       THEN /\ last' = [op |-> "detect", outcome |-> "AppError", pre |-> clips,
                        calls |-> <<"scene_detector">>,
                        arg |-> [video |-> v, scene_threshold |-> scene_threshold],
                        ret |-> AppError("Scene detection failed.", report)]
            /\ UNCHANGED <<ocrVars, videos, detected, clips>>
       ELSE LET pts_times == PtsTimes(report)
                result == BuildClips(v, videos[v].duration, pts_times, 0)
            IN  /\ last' = [op |-> "detect", outcome |-> "ok", pre |-> clips,
                            calls |-> <<"scene_detector">>,
                            arg |-> [video |-> v, scene_threshold |-> scene_threshold,
                                     pts_times |-> pts_times, markers |-> Markers(report)],
                            ret |-> result]
                \* the caller adds the returned clips to its working list
                /\ clips' = clips \o result
                /\ detected' = detected \cup {v}
                /\ UNCHANGED <<ocrVars, videos>>

\* ------------------------------------------------------------------ DBManager
\* _create_tables: the three tables, empty in a new database.  A row is kept with its
\* key and the columns that reference other rows or are validated from the arguments
\* the calls below vary.
EmptyDb == [Videos |-> <<>>, Clips |-> <<>>, Watermarks |-> <<>>]

\* the rows a table holds at most
MaxRows == 2

\* INTEGER PRIMARY KEY AUTOINCREMENT: one more than the largest key the table ever
\* held; no operation of DBManager deletes a row
NextRowId(rows) == Len(rows) + 1

\* a database that enforces no foreign key
ForeignKeysOff(d, id) == TRUE
\* REFERENCES Videos(video_id) under PRAGMA foreign_keys = ON: the statement fails
\* unless a row of Videos has the key
VideoStored(d, video_id) == \E k \in 1..Len(d.Videos) : d.Videos[k].video_id = video_id

\* REFERENCES Clips(clip_id) under PRAGMA foreign_keys = ON
ClipStored(d, clip_id) == \E k \in 1..Len(d.Clips) : d.Clips[k].clip_id = clip_id

\* the outcome of a call of DBManager, for the history variable
DbCall(op, outcome, arg, ret) ==
    [op |-> op, outcome |-> outcome, pre |-> db, calls |-> <<>>, arg |-> arg, ret |-> ret]

\* the database a call leaves, with what it raised or returned
DbRun(outcome, d, ret) == [outcome |-> outcome, db |-> d, ret |-> ret]

\* insert_video: source_type in {"file", "url"}, duration >= 0 (the other arguments
\* are passed valid)
InsertVideoOk(source_type, duration) == source_type \in {"file", "url"} /\ duration >= 0

\* the row is stored and committed, and cursor.lastrowid returned
InsertVideoRun(d, source_type, duration) ==
    IF ~InsertVideoOk(source_type, duration)
    THEN DbRun("ValueError", d, <<>>)
    ELSE DbRun("ok",
               [d EXCEPT !.Videos = Append(@, [video_id |-> NextRowId(d.Videos),
                                              source_type |-> source_type,
                                              duration |-> duration])],
               NextRowId(d.Videos))

InsertVideo(source_type, duration) ==
    LET run == InsertVideoRun(db, source_type, duration)
    IN  /\ run.outcome = "ok" => Len(db.Videos) < MaxRows
        /\ db' = run.db
        /\ last' = DbCall("insert_video", run.outcome,
                          [source_type |-> source_type, duration |-> duration], run.ret)
        /\ UNCHANGED <<videos, detected, clips, heap, rois, request, listed>>

\* the database after the import collaborator stored the videos, in the order of their
\* identities
RECURSIVE ImportedDb(_)
ImportedDb(n) ==
    IF n = 0 THEN EmptyDb
    ELSE InsertVideoRun(ImportedDb(n - 1), "file", Videos[n].duration).db

\* insert_clip validates its arguments: video_id >= 1, start_time >= 0,
\* end_time > start_time
InsertClipOk(c) == c.video_id >= 1 /\ c.start_time >= 0 /\ c.end_time > c.start_time

\* insert_clip: the arguments are validated (ValueError), then the INSERT runs; a
\* video_id no row of Videos has makes it fail (sqlite3.IntegrityError), and a failed
\* statement stores nothing; else the row is committed and cursor.lastrowid returned
InsertClipRun(d, video_id, start_time, end_time) ==
    IF ~InsertClipOk([video_id |-> video_id, start_time |-> start_time,
                      end_time |-> end_time])
    THEN DbRun("ValueError", d, <<>>)
    ELSE IF ~VideoStored(d, video_id)
    THEN DbRun("IntegrityError", d, <<>>)
    ELSE DbRun("ok",
               [d EXCEPT !.Clips = Append(@, [clip_id |-> NextRowId(d.Clips),
                                             video_id |-> video_id,
                                             start_time |-> start_time,
                                             end_time |-> end_time])],
               NextRowId(d.Clips))

InsertClip(video_id, start_time, end_time) ==
    LET run == InsertClipRun(db, video_id, start_time, end_time)
    IN  /\ run.outcome = "ok" => Len(db.Clips) < MaxRows
        /\ db' = run.db
        /\ last' = DbCall("insert_clip", run.outcome,
                          [video_id |-> video_id, start_time |-> start_time,
                           end_time |-> end_time], run.ret)
        /\ UNCHANGED <<videos, detected, clips, heap, rois, request, listed>>

\* insert_watermark: video_id >= 1, clip_id >= 1, 0.0 <= confidence <= 1.0 (in
\* hundredths; the other arguments are passed valid)
InsertWatermarkOk(video_id, clip_id, confidence) ==
    video_id >= 1 /\ clip_id >= 1 /\ 0 <= confidence /\ confidence <= 100

\* the INSERT fails unless Videos has the video_id and Clips has the clip_id; the two
\* references are checked apart: the clip need not be a clip of that video
InsertWatermarkRun(d, video_id, clip_id, confidence) ==
    IF ~InsertWatermarkOk(video_id, clip_id, confidence)
    THEN DbRun("ValueError", d, <<>>)
    ELSE IF ~(VideoStored(d, video_id) /\ ClipStored(d, clip_id))
    THEN DbRun("IntegrityError", d, <<>>)
    ELSE DbRun("ok",
               [d EXCEPT !.Watermarks =
                   Append(@, [watermark_id |-> NextRowId(d.Watermarks),
                              video_id |-> video_id,
                              clip_id |-> clip_id,
                              confidence |-> confidence])],
               NextRowId(d.Watermarks))

InsertWatermark(video_id, clip_id, confidence) ==
    LET run == InsertWatermarkRun(db, video_id, clip_id, confidence)
    IN  /\ run.outcome = "ok" => Len(db.Watermarks) < MaxRows
        /\ db' = run.db
        /\ last' = DbCall("insert_watermark", run.outcome,
                          [video_id |-> video_id, clip_id |-> clip_id,
                           confidence |-> confidence], run.ret)
        /\ UNCHANGED <<videos, detected, clips, heap, rois, request, listed>>

\* ------------------------------------------------------------------ storing the clips
\* Between two edits the caller stores the clips of its list that have no identity
\* yet, in list order, one insert_clip call each, and records the clip_id the call
\* returns on the clip; a clip insert_clip rejects (ValueError) stays unassigned.
Unassigned(cs) == {i \in 1..Len(cs) : cs[i].clip_id = None /\ InsertClipOk(cs[i])}

\* one call: insert_clip for the first clip of the list without identity.  The row
\* keeps the times the clip had when it was stored.
Persist ==
    /\ Unassigned(clips) # {}
    /\ NextRowId(db.Clips) <= MaxId
    /\ LET i == Min(Unassigned(clips))
           run == InsertClipRun(db, clips[i].video_id, clips[i].start_time,
                                clips[i].end_time)
       IN  /\ db' = run.db
           /\ clips' = IF run.outcome = "ok"
                       THEN [clips EXCEPT ![i].clip_id = Some(run.ret)]
                       ELSE clips
           /\ last' = [op |-> "persist", outcome |-> run.outcome, pre |-> clips,
                       calls |-> <<>>, arg |-> i, ret |-> run.ret]
    /\ UNCHANGED <<videos, detected, heap, rois, request, listed>>

\* ------------------------------------------------------------------ merge_clips
\* a lookup that knows the first clip of the list alone
InIdMapFirst(cs, cid) == cs # <<>> /\ cs[1].clip_id = Some(cid)
\* id_map = {clip.clip_id: clip for clip in clips}: a later clip replaces an earlier one
\* under the same key
InIdMap(cs, cid) == \E i \in 1..Len(cs) : cs[i].clip_id = Some(cid)
IdMap(cs, cid) == cs[Max({i \in 1..Len(cs) : cs[i].clip_id = Some(cid)})]

RECURSIVE RemoveAll(_, _)
\* for clip in selected: clips.remove(clip).  list.remove raises ValueError when the
\* clip is no longer in the list; what was removed before stays removed.
RemoveAll(cs, selected) ==
    IF selected = <<>> THEN [list |-> cs, ok |-> TRUE]
    ELSE IF \E i \in 1..Len(cs) : cs[i] = Head(selected)
    THEN RemoveAll(ListRemove(cs, Head(selected)), Tail(selected))
    ELSE [list |-> cs, ok |-> FALSE]

\* a check of ids that accepts any order
IdsNonEmpty(ids) == ids # <<>>
\* if not ids or sorted(ids) != ids: raise ValueError
IdsWellFormed(ids) == ids # <<>> /\ sorted(ids) = ids

MergeSelected(cs, ids) == [k \in 1..Len(ids) |-> IdMap(cs, ids[k])]
MergeStart(selected) == Min({selected[k].start_time : k \in 1..Len(selected)})
\* the end of the first selected clip, not the latest end
MergeEndOfFirst(selected) == selected[1].end_time
MergeEnd(selected) == Max({selected[k].end_time : k \in 1..Len(selected)})

MergeClips(ids) ==
    /\ detected # {}
    /\ LET fail(list) ==
               /\ last' = [op |-> "merge", outcome |-> "ValueError", pre |-> clips,
                           calls |-> <<>>, arg |-> [ids |-> ids], ret |-> <<>>]
               /\ clips' = list
               /\ UNCHANGED <<ocrVars, videos, detected>>
       IN  IF ~IdsWellFormed(ids) THEN fail(clips)
           ELSE IF ~(\A k \in 1..Len(ids) : InIdMap(clips, ids[k])) THEN fail(clips)
           ELSE LET selected == MergeSelected(clips, ids)
                    video_ids == {selected[k].video_id : k \in 1..Len(selected)}
                IN  IF Cardinality(video_ids) # 1 THEN fail(clips)
                    ELSE LET removed == RemoveAll(clips, selected)
                             merged == Clip(selected[1].video_id, MergeStart(selected),
                                            MergeEnd(selected))
                         IN  IF ~removed.ok THEN fail(removed.list)
                             ELSE /\ clips' = Append(removed.list, merged)
                                  /\ last' = [op |-> "merge", outcome |-> "ok",
                                              pre |-> clips, calls |-> <<>>,
                                              arg |-> [ids |-> ids], ret |-> <<merged>>]
                                  /\ UNCHANGED <<ocrVars, videos, detected>>

\* ------------------------------------------------------------------ split_clip
\* target = next((c for c in clips if c.clip_id == clip_id_to_split), None)
HasTarget(cs, cid) == \E i \in 1..Len(cs) : cs[i].clip_id = Some(cid)
Target(cs, cid) == cs[Min({i \in 1..Len(cs) : cs[i].clip_id = Some(cid)})]

\* a bounds check that admits both ends of the target
SplitTimeWithin(target, split_time) ==
    target.start_time <= split_time /\ split_time <= target.end_time
\* if not (target.start_time < split_time < target.end_time): raise ValueError
SplitTimeOk(target, split_time) ==
    target.start_time < split_time /\ split_time < target.end_time

SplitClip(cid, split_time) ==
    /\ detected # {}
    /\ Len(clips) < MaxClips
    /\ IF ~HasTarget(clips, cid) \/ ~SplitTimeOk(Target(clips, cid), split_time)
       THEN /\ last' = [op |-> "split", outcome |-> "ValueError", pre |-> clips,
                        calls |-> <<>>,
                        arg |-> [clip_id_to_split |-> cid, split_time |-> split_time],
                        ret |-> <<>>]
            /\ UNCHANGED <<ocrVars, videos, detected, clips>>
       ELSE LET target == Target(clips, cid)
                new1 == Clip(target.video_id, target.start_time, split_time)
                new2 == Clip(target.video_id, split_time, target.end_time)
            IN  /\ clips' = ListRemove(clips, target) \o <<new1, new2>>
                /\ last' = [op |-> "split", outcome |-> "ok", pre |-> clips,
                            calls |-> <<>>,
                            arg |-> [clip_id_to_split |-> cid, split_time |-> split_time],
                            ret |-> <<new1, new2>>]
                /\ UNCHANGED <<ocrVars, videos, detected>>

\* ------------------------------------------------------------------ binary64 arithmetic
\* A Python float is an IEEE 754 binary64 number.  The values of the frame sampler lie in
\* [0, 8) (or are the negative of such a value) and are multiples of 2^-58; such a number
\* is kept exactly as sign * (hi * 2^30 + lo) / 2^58.  Every operation computes the
\* exact result and rounds it to 53 significant bits, ties to even, as the hardware does.
Limb == 2 ^ 30
HalfLimb == 2 ^ 15
Float(sign, hi, lo) == [sign |-> sign, hi |-> hi, lo |-> lo]
FZero == Float(1, 0, 0)

RECURSIVE BitLen(_)
\* the number of binary digits of n >= 0
BitLen(n) == IF n = 0 THEN 0 ELSE 1 + BitLen(n \div 2)

\* the exact value hi * 2^30 + lo (with sticky: plus a fraction in (0, 1)), rounded to 53
\* significant bits, round half to even
Round(sign, hi, lo, sticky) ==
    LET len == IF hi = 0 THEN BitLen(lo) ELSE 30 + BitLen(hi)
        drop == len - 53
    IN  IF drop <= 0 THEN Float(sign, hi, lo)
        ELSE LET q == 2 ^ drop
                 rem == lo % q
                 half == q \div 2
                 odd == (lo \div q) % 2 = 1
                 up == rem > half \/ (rem = half /\ (sticky \/ odd))
                 lo2 == (lo - rem) + (IF up THEN q ELSE 0)
             IN  IF lo2 = Limb THEN Float(sign, hi + 1, 0) ELSE Float(sign, hi, lo2)

\* a < b
FLess(a, b) ==
    LET am == <<a.hi, a.lo>>
        bm == <<b.hi, b.lo>>
        less(x, y) == x[1] < y[1] \/ (x[1] = y[1] /\ x[2] < y[2])
    IN  IF a.sign = 1 /\ b.sign = 1 THEN less(am, bm)
        ELSE IF a.sign = 1 THEN FALSE
        ELSE IF b.sign = 1 THEN am # <<0, 0>> \/ bm # <<0, 0>>
        ELSE less(bm, am)

\* a + b for a, b >= 0
FAdd(a, b) ==
    LET lo == a.lo + b.lo
    IN  Round(1, a.hi + b.hi + (lo \div Limb), lo % Limb, FALSE)

\* a - b for a, b >= 0
FSub(a, b) ==
    LET big == IF FLess(a, b) THEN b ELSE a
        small == IF FLess(a, b) THEN a ELSE b
        borrow == IF big.lo < small.lo THEN 1 ELSE 0
    IN  Round(IF FLess(a, b) THEN 0 - 1 ELSE 1,
              big.hi - small.hi - borrow, big.lo + borrow * Limb - small.lo, FALSE)

\* n / d for integers 0 <= n and 0 < d, neither above 2^15, with n / d < 8 and
\* n = 0 or n / d >= 2^-5: the quotient by long division, 58 fractional bits, then rounded
FDiv(n, d) ==
    LET q0 == n \div d
        r0 == n % d
        a1 == (r0 * (2 ^ 14)) \div d
        r1 == (r0 * (2 ^ 14)) % d
        a2 == (r1 * (2 ^ 14)) \div d
        r2 == (r1 * (2 ^ 14)) % d
        b1 == (r2 * HalfLimb) \div d
        r3 == (r2 * HalfLimb) % d
        b2 == (r3 * HalfLimb) \div d
        r4 == (r3 * HalfLimb) % d
    IN  Round(1, q0 * (2 ^ 28) + a1 * (2 ^ 14) + a2, b1 * HalfLimb + b2, r4 # 0)

\* float("W.F"): the binary64 number nearest to the decimal, for the time of t tenths
ToFloat(t) == FDiv(t, 10)

\* ------------------------------------------------------------------ extract_frames_for_clip
\* tempfile.mkdtemp(): a directory that did not exist before, so one no recorded segment
\* path lies in
Recorded(cs) == {Val(cs[i].file_path) : i \in {j \in 1..Len(cs) : cs[j].file_path # None}}
DirName(n) == "/tmp/tmp" \o ToString(n)
Mkdtemp(cs) ==
    DirName(Min({n \in 1..(Len(cs) + 1) :
                    \A path \in Recorded(cs) : path.dir # DirName(n)}))

\* f"clip_{clip.clip_id or 'temp'}.mp4": None and 0 are both falsy
ClipFileName(clip_id) ==
    IF clip_id = None \/ clip_id = Some(0) THEN "clip_temp.mp4"
    ELSE "clip_" \o ToString(Val(clip_id)) \o ".mp4"

\* os.path.join(temp_dir, name), kept as its two parts
TempClipPath(dir, clip_id) == [dir |-> dir, name |-> ClipFileName(clip_id)]

\* FrameBatch(clip_id=clip.clip_id or -1)
BatchClipId(clip_id) == IF clip_id = None \/ clip_id = Some(0) THEN 0 - 1 ELSE Val(clip_id)

\* if sampling_rate_fps <= 0: raise ValueError
SamplingRateOk(sampling_rate_fps) == sampling_rate_fps > 0

\* a trim on every call
NeedTrimAlways(clip) == TRUE
\* if clip.file_path is None: the segment is trimmed only then
NeedTrim(clip) == clip.file_path = None

\* sampling_rate_fps arguments
FpsValues == {0 - 1, 0, 2, 10}
\* temp_dir arguments: the caller names the directory of the segments
TempDirs == {Some("/work")}
\* the number of frames the stream of a segment gives before a read fails
StreamFrames == {0, 2, 100}

RECURSIVE SampleLoopOn(_, _, _, _, _, _)
\* a loop that goes on to the next step after a read that gave no frame
SampleLoopOn(start, duration, frame_interval, frames_left, current_time, acc) ==
    IF ~FLess(current_time, duration) THEN acc
    ELSE IF frames_left = 0
    THEN SampleLoopOn(start, duration, frame_interval, 0,
                      FAdd(current_time, frame_interval),
                      [acc EXCEPT !.calls = @ \o <<"seek", "read">>])
    ELSE SampleLoopOn(start, duration, frame_interval, frames_left - 1,
                      FAdd(current_time, frame_interval),
                      [frames |-> Append(acc.frames, current_time),
                       timestamps |-> Append(acc.timestamps, FAdd(start, current_time)),
                       calls |-> acc.calls \o <<"seek", "read">>])

RECURSIVE SampleLoop(_, _, _, _, _, _)
\* the while loop: seek to current_time, read one frame, stop at the first failed read.
\* The stream gives `frames_left` more frames; `acc` is the batch and the calls so far.
SampleLoop(start, duration, frame_interval, frames_left, current_time, acc) ==
    IF ~FLess(current_time, duration) THEN acc
    ELSE IF frames_left = 0
    THEN [acc EXCEPT !.calls = @ \o <<"seek", "read">>]
    ELSE SampleLoop(start, duration, frame_interval, frames_left - 1,
                    FAdd(current_time, frame_interval),
                    [frames |-> Append(acc.frames, current_time),
                     timestamps |-> Append(acc.timestamps, FAdd(start, current_time)),
                     calls |-> acc.calls \o <<"seek", "read">>])

\* frame_interval, current_time and duration before the loop, and the loop
Sample(start_time, end_time, sampling_rate_fps, stream_frames) ==
    LET frame_interval == FDiv(1, sampling_rate_fps)
        duration == FSub(ToFloat(end_time), ToFloat(start_time))
    IN  SampleLoop(ToFloat(start_time), duration, frame_interval, stream_frames, FZero,
                   [frames |-> <<>>, timestamps |-> <<>>, calls |-> <<>>])

\* Sample on every clip, rate and stream of the model, computed once: the set of
\* <<arguments, result>> and the lookup in it
SampleTable ==
    {<<x, Sample(x[1], x[2], x[3], x[4])>> :
        x \in Times \X Times \X {fps \in FpsValues : SamplingRateOk(fps)} \X StreamFrames}
Sampled(start_time, end_time, sampling_rate_fps, stream_frames) ==
    (CHOOSE p \in SampleTable :
        p[1] = <<start_time, end_time, sampling_rate_fps, stream_frames>>)[2]

\* the loop met a read that gave no frame: one seek and one read more than frames
ReadFailed(done) == Len(done.calls) > 2 * Len(done.frames)

\* what a failing trim writes to its stderr
TrimStderr == "Error opening input file"

\* extract_frames_for_clip(clips[i], video, sampling_rate_fps, temp_dir), with the trim
\* exiting with trim_ok, the capture opening or not, and a stream of stream_frames frames;
\* the read after the last frame of the stream returns no frame, or raises (read_raises)
ExtractFrames(i, sampling_rate_fps, temp_dir, trim_ok, open_ok, stream_frames, read_raises) ==
    /\ i \in 1..Len(clips)
    /\ LET clip == clips[i]
           arg == [index |-> i, sampling_rate_fps |-> sampling_rate_fps,
                   temp_dir |-> temp_dir, stream |-> stream_frames]
           raise(kind, calls) ==
               last' = [op |-> "extract", outcome |-> kind, pre |-> clips,
                        calls |-> calls, arg |-> arg, ret |-> <<>>]
           raiseApp(calls, user_message, internal_message) ==
               last' = [op |-> "extract", outcome |-> "AppError", pre |-> clips,
                        calls |-> calls, arg |-> arg,
                        ret |-> AppError(user_message, internal_message)]
           need_trim == NeedTrim(clip)
           dir_calls == IF need_trim /\ temp_dir = None THEN <<"mkdtemp">> ELSE <<>>
           dir == IF temp_dir = None THEN Mkdtemp(clips) ELSE Val(temp_dir)
           trim_calls == IF need_trim THEN dir_calls \o <<"trim">> ELSE <<>>
           file_path == IF need_trim THEN Some(TempClipPath(dir, clip.clip_id))
                        ELSE clip.file_path
       IN  IF ~SamplingRateOk(sampling_rate_fps)
           THEN raise("ValueError", <<>>) /\ UNCHANGED <<ocrVars, videos, detected, clips>>
           ELSE IF need_trim /\ ~trim_ok
           THEN /\ raiseApp(trim_calls, "Failed to trim clip.", TrimStderr)
                /\ UNCHANGED <<ocrVars, videos, detected, clips>>
           ELSE /\ clips' = [clips EXCEPT ![i].file_path = file_path]
                /\ UNCHANGED <<ocrVars, videos, detected>>
                /\ IF ~open_ok
                   \* internal_message=clip.file_path
                   THEN raiseApp(trim_calls \o <<"open">>,
                                 "Cannot open clip file for frame extraction.",
                                 Val(file_path))
                   ELSE LET done == Sampled(clip.start_time, clip.end_time,
                                               sampling_rate_fps, stream_frames)
                        IN  IF read_raises /\ ReadFailed(done)
                            \* the exception of capture.read() leaves the function
                            THEN raise("cv2.error", trim_calls \o <<"open">> \o done.calls)
                            ELSE
                            last' = [op |-> "extract", outcome |-> "ok", pre |-> clips,
                                     calls |-> trim_calls \o <<"open">> \o done.calls
                                               \o <<"release">>,
                                     arg |-> arg,
                                     ret |-> [clip_id |-> BatchClipId(clip.clip_id),
                                              frames |-> done.frames,
                                              timestamps |-> done.timestamps]]

\* ------------------------------------------------------------------ ROI
\* An ROI object is an entry of the heap: its four fields are plain attributes that
\* whoever holds the object can assign.  The store holds references to the objects,
\* kept as their positions in the heap.
RoiFields(x, y, width, height) == [x |-> x, y |-> y, width |-> width, height |-> height]

\* ROI(x, y, width, height): the constructor refuses width <= 0 and height <= 0, and
\* takes any x and y
ROI(x, y, width, height) ==
    IF width <= 0 \/ height <= 0 THEN None ELSE Some(RoiFields(x, y, width, height))

\* the objects of the caller, as constructed
Objects == <<Val(ROI(0, 0, 2, 2)), Val(ROI(2, 2, 2, 2))>>

\* the fields an object can hold after the caller's assignments
RoiValues ==
    {RoiFields(0, 0, 2, 2), RoiFields(2, 2, 2, 2),
     RoiFields(0 - 1, 0, 2, 2), RoiFields(0, 0 - 1, 2, 2),
     RoiFields(0, 0, 0, 2), RoiFields(0, 0, 2, 0),
     RoiFields(0, 0, 0 - 1, 2), RoiFields(0, 0, 2, 0 - 1)}

\* the length the store's list is let grow to
MaxRois == 2

\* the caller assigns fields of its object o: roi.x = ..., roi.width = ...
Assign(o, fields) ==
    /\ o \in 1..Len(heap)
    /\ heap[o] # fields
    /\ heap' = [heap EXCEPT ![o] = fields]
    /\ last' = [op |-> "assign", outcome |-> "ok", pre |-> rois, calls |-> <<>>,
                arg |-> [roi |-> o, fields |-> fields], ret |-> <<>>]
    /\ UNCHANGED <<db, videos, detected, clips, rois, request, listed>>

\* ------------------------------------------------------------------ ROIManager.add_roi
\* roi.width <= 0 or roi.height <= 0 raises ValueError
RoiSizeOk(roi) == ~(roi.width <= 0 \/ roi.height <= 0)
\* an origin check that looks at x alone
RoiOriginX(roi) == ~(roi.x < 0)
\* roi.x < 0 or roi.y < 0 raises ValueError
RoiOriginOk(roi) == ~(roi.x < 0 \/ roi.y < 0)

\* add_roi(roi), roi being the caller's object o
AddRoi(o) ==
    /\ o \in 1..Len(heap)
    /\ Len(rois) < MaxRois
    /\ LET roi == heap[o]
           raise(message) ==
               /\ last' = [op |-> "add_roi", outcome |-> "ValueError", pre |-> rois,
                           calls |-> <<>>, arg |-> [roi |-> o, fields |-> roi],
                           ret |-> message]
               /\ UNCHANGED <<db, videos, detected, clips, heap, rois, request, listed>>
       IN  IF ~RoiSizeOk(roi)
           THEN raise("ROI width and height must be positive integers.")
           ELSE IF ~RoiOriginOk(roi)
           THEN raise("ROI x and y must be non-negative integers.")
           \* self.rois.append(roi): the list holds the object itself
           ELSE /\ rois' = Append(rois, o)
                /\ last' = [op |-> "add_roi", outcome |-> "ok", pre |-> rois,
                            calls |-> <<>>, arg |-> [roi |-> o, fields |-> roi],
                            ret |-> <<>>]
                /\ UNCHANGED <<db, videos, detected, clips, heap, request, listed>>

\* the objects the caller can reach: those it constructed and those of the list it got
Held ==
    (1..Len(Objects))
    \cup (IF listed = None THEN {}
          ELSE {Val(listed)[k] : k \in 1..Len(Val(listed))})

\* ------------------------------------------------------------------ ROIManager.remove_roi
\* the position del self.rois[index] removes in a list of n entries: a negative index
\* counts from the end of the list
PyIndex(index, n) == IF index < 0 THEN index + n ELSE index

\* the list l without its entry at position k (from 1)
RemoveAt(l, k) == SubSeq(l, 1, k - 1) \o SubSeq(l, k + 1, Len(l))

\* remove_roi(index)
RemoveRoi(index) ==
    LET at == PyIndex(index, Len(rois))
    IN  IF at < 0 \/ at >= Len(rois)
        THEN /\ last' = [op |-> "remove_roi", outcome |-> "IndexError", pre |-> rois,
                         calls |-> <<>>, arg |-> [index |-> index],
                         ret |-> "list assignment index out of range"]
             /\ UNCHANGED <<db, videos, detected, clips, heap, rois, request, listed>>
        ELSE /\ rois' = RemoveAt(rois, at + 1)
             /\ last' = [op |-> "remove_roi", outcome |-> "ok", pre |-> rois,
                         calls |-> <<>>, arg |-> [index |-> index], ret |-> <<>>]
             /\ UNCHANGED <<db, videos, detected, clips, heap, request, listed>>

\* the indices passed to remove_roi
Indices == {0 - 4, 0 - 1, 0, 1, 3}

\* ------------------------------------------------------------------ ROIManager.list_rois
\* list_rois(): self.rois.copy() is a new list that holds the same objects
ListRois ==
    /\ listed' = Some(rois)
    /\ last' = [op |-> "list_rois", outcome |-> "ok", pre |-> rois, calls |-> <<>>,
                arg |-> <<>>, ret |-> rois]
    /\ UNCHANGED <<db, videos, detected, clips, heap, rois, request>>

\* the caller changes the list it got: it appends an object, removes the first entry
\* or reverses the list
ChangeListed(items) ==
    /\ listed # None
    /\ items # Val(listed)
    /\ \/ \E o \in Held : Len(Val(listed)) < MaxRois /\ items = Append(Val(listed), o)
       \/ Val(listed) # <<>> /\ items = Tail(Val(listed))
       \/ items = [k \in 1..Len(Val(listed)) |-> Val(listed)[Len(Val(listed)) + 1 - k]]
    /\ listed' = Some(items)
    /\ last' = [op |-> "change_list", outcome |-> "ok", pre |-> rois, calls |-> <<>>,
                arg |-> [items |-> items], ret |-> <<>>]
    /\ UNCHANGED <<db, videos, detected, clips, heap, rois, request>>

\* ------------------------------------------------------------------ ROIManager.__init__
\* the copies ROI(r.x, r.y, r.width, r.height) of the objects of initial_rois
Copies(initial_rois) ==
    [k \in 1..Len(initial_rois) |->
        ROI(heap[initial_rois[k]].x, heap[initial_rois[k]].y,
            heap[initial_rois[k]].width, heap[initial_rois[k]].height)]

\* ROIManager(initial_rois): a new store, which takes the place of the one before; the
\* caller lets go of the list it got from the old one
Construct(initial_rois) ==
    LET copies == Copies(initial_rois)
        arg == [initial_rois |-> initial_rois,
                fields |-> [k \in 1..Len(initial_rois) |-> heap[initial_rois[k]]]]
    IN  IF \E k \in 1..Len(copies) : copies[k] = None
        THEN /\ last' = [op |-> "construct", outcome |-> "ValueError", pre |-> rois,
                         calls |-> <<>>, arg |-> arg,
                         ret |-> "ROI width and height must be positive integers."]
             /\ UNCHANGED <<db, videos, detected, clips, heap, rois, request, listed>>
        ELSE /\ heap' = SubSeq(heap, 1, Len(Objects))
                            \o [k \in 1..Len(copies) |-> Val(copies[k])]
             /\ rois' = [k \in 1..Len(copies) |-> Len(Objects) + k]
             /\ listed' = None
             /\ last' = [op |-> "construct", outcome |-> "ok", pre |-> rois,
                         calls |-> <<>>, arg |-> arg, ret |-> <<>>]
             /\ UNCHANGED <<db, videos, detected, clips, request>>

\* ------------------------------------------------------------------ recognised text
\* A text is the sequence of its characters.  str.strip() removes the blanks at both
\* ends.
RECURSIVE LStrip(_)
LStrip(text) == IF text # <<>> /\ Head(text) = " " THEN LStrip(Tail(text)) ELSE text
RECURSIVE RStrip(_)
RStrip(text) ==
    IF text # <<>> /\ text[Len(text)] = " " THEN RStrip(SubSeq(text, 1, Len(text) - 1))
    ELSE text
Strip(text) == RStrip(LStrip(text))

\* "".join(tokens)
RECURSIVE Join(_)
Join(tokens) == IF tokens = <<>> THEN <<>> ELSE Head(tokens) \o Join(Tail(tokens))

\* zip(texts, confs): pairs up to the end of the shorter list
Zip(texts, confs) ==
    [k \in 1..Min({Len(texts), Len(confs)}) |-> <<texts[k], confs[k]>>]

\* ------------------------------------------------------------------ confidences
\* The engine reports a confidence as a percentage (conf_str), None standing for a
\* text float() cannot read.  A confidence in [0, 1] and a confidence threshold are
\* kept as their number of two-hundredths: float(conf_str) / 100.0 is 2 * conf_str
\* two-hundredths.  A response of the engine holds at most two tokens, so that the
\* mean of the confidences of a response is a whole number of two-hundredths, and the
\* percentages are chosen so that the binary64 mean compares with every threshold of
\* the model as the exact mean does.
\* a confidence left as the percentage: float(conf_str), in two-hundredths
ConfValPercent(conf_str) == 200 * conf_str
ConfVal(conf_str) == 2 * conf_str

RECURSIVE Sum(_)
Sum(values) == IF values = <<>> THEN 0 ELSE Head(values) + Sum(Tail(values))

\* a confidence that is the sum, not the mean
ConfTotal(numeric_confs) == Sum(numeric_confs)
\* sum(numeric_confs) / len(numeric_confs) if numeric_confs else 0.0
OverallConf(numeric_confs) ==
    IF numeric_confs = <<>> THEN 0 ELSE Sum(numeric_confs) \div Len(numeric_confs)

\* a threshold check without the upper end
ConfThresholdFrom0(confidence_threshold) == 0 <= confidence_threshold
\* not (0.0 <= confidence_threshold <= 1.0) raises ValueError
ConfThresholdOk(confidence_threshold) ==
    0 <= confidence_threshold /\ confidence_threshold <= 200

\* the thresholds passed: -0.5, 0.0, 0.5, 1.0, 1.5
ConfThresholds == {0 - 100, 0, 100, 200, 300}

\* ------------------------------------------------------------------ OCRResult
\* OCRResult(...): the constructor refuses an empty text and a confidence outside
\* [0.0, 1.0]
OCRResult(video_id, clip_id, timestamp, text, confidence, roi) ==
    IF text = <<>> \/ ~(0 <= confidence /\ confidence <= 200) THEN None
    ELSE Some([video_id |-> video_id, clip_id |-> clip_id, timestamp |-> timestamp,
               text |-> text, confidence |-> confidence, roi |-> roi])

\* ------------------------------------------------------------------ frames and crops
\* A frame is its shape: frame.shape[0] rows and frame.shape[1] columns of 3 channels.
Frame(height, width) == [height |-> height, width |-> width]
Frames == {Frame(4, 4), Frame(2, 4)}

\* a[start:stop] on an axis of n entries: a negative index counts from the end, and
\* both ends are clipped to the axis
SliceIndex(i, n) == IF i < 0 THEN Max({i + n, 0}) ELSE Min({i, n})
SliceLen(start, stop, n) == Max({SliceIndex(stop, n) - SliceIndex(start, n), 0})

\* frame[y: y + h, x: x + w].size
CropSize(frame, roi) ==
    SliceLen(roi.y, roi.y + roi.height, frame.height)
    * SliceLen(roi.x, roi.x + roi.width, frame.width) * 3

\* a bounds check that leaves out the origin
InFrameFar(frame, roi) ==
    ~(roi.y + roi.height > frame.height \/ roi.x + roi.width > frame.width)
\* y < 0 or x < 0 or y + h > frame.shape[0] or x + w > frame.shape[1]: skipped
InFrame(frame, roi) ==
    ~(roi.y < 0 \/ roi.x < 0 \/ roi.y + roi.height > frame.height
      \/ roi.x + roi.width > frame.width)

\* ------------------------------------------------------------------ the engine
\* A call of pytesseract.image_to_data answers with the lists text and conf ("data"),
\* raises TesseractNotFoundError ("missing") or raises another exception ("fault").
\* The calls of one request are answered by a script, in the order of the calls.
Data(texts, confs) == [kind |-> "data", text |-> texts, conf |-> confs]
Missing == [kind |-> "missing", text |-> <<>>, conf |-> <<>>]
Fault == [kind |-> "fault", text |-> <<>>, conf |-> <<>>]

Responses ==
    {Data(<<>>, <<>>),
     Data(<<<<"A">>>>, <<Some(100)>>),
     Data(<<<<"A">>, <<"B">>>>, <<Some(50), Some(100)>>),
     Data(<<<<"A">>, <<"B">>>>, <<Some(100), Some(0)>>),
     Data(<<<<"A">>, <<>>>>, <<Some(100), Some(0 - 1)>>),
     Data(<<<<" ">>>>, <<Some(100)>>),
     Data(<<<<" ", "B">>, <<"A", " ">>>>, <<Some(100), Some(50)>>),
     Data(<<<<"A">>, <<"B">>>>, <<None, Some(100)>>),
     Data(<<<<"A">>>>, <<Some(0 - 1)>>),
     Data(<<<<"A">>, <<"B">>>>, <<Some(100)>>),
     Missing, Fault}

\* ------------------------------------------------------------------ process_frame_for_ocr
RECURSIVE ParseTokens(_, _, _)
\* the loop over zip(texts, confs): a confidence float() cannot read skips the token;
\* every other confidence is counted, and the token is kept when its confidence is
\* positive and its text is not blank
ParseTokens(pairs, numeric_confs, tokens) ==
    IF pairs = <<>> THEN [numeric_confs |-> numeric_confs, tokens |-> tokens]
    ELSE LET text == Head(pairs)[1]
             conf_str == Head(pairs)[2]
         IN  IF conf_str = None THEN ParseTokens(Tail(pairs), numeric_confs, tokens)
             ELSE LET conf_val == ConfVal(Val(conf_str))
                  IN  ParseTokens(Tail(pairs), Append(numeric_confs, conf_val),
                                  IF conf_val > 0 /\ Strip(text) # <<>>
                                  THEN Append(tokens, text) ELSE tokens)

\* text_str and overall_conf of the data of one engine call
Candidate(data) ==
    LET parsed == ParseTokens(Zip(data.text, data.conf), <<>>, <<>>)
    IN  [text_str |-> Strip(Join(parsed.tokens)),
         overall_conf |-> OverallConf(parsed.numeric_confs)]

\* a filter that looks at the text alone
EmitsText(candidate, confidence_threshold) == candidate.text_str # <<>>
\* text_str and overall_conf >= confidence_threshold
Emits(candidate, confidence_threshold) ==
    candidate.text_str # <<>> /\ candidate.overall_conf >= confidence_threshold

\* The run of a call: the results so far, the calls made (the engine, the log), the
\* ROIs handed to the engine and the ROI each result came from (both as <<frame, ROI>>
\* positions), the answers the engine has left, and the exception raised if any.
Started(script) ==
    [results |-> <<>>, calls |-> <<>>, passed |-> <<>>, origin |-> <<>>,
     script |-> script, outcome |-> "ok", message |-> ""]

Raised(run, kind, message) ==
    [run EXCEPT !.outcome = kind, !.message = message, !.results = <<>>, !.origin = <<>>]

RECURSIVE FrameLoop(_, _, _)
\* the loop over rois of process_frame_for_ocr, from position k on
FrameLoop(c, k, run) ==
    IF k > Len(c.rois) THEN run
    ELSE LET roi == c.rois[k]
             warned == [run EXCEPT !.calls = Append(@, "log.warning")]
         IN  IF ~InFrame(c.frame, roi) THEN FrameLoop(c, k + 1, warned)
             ELSE IF CropSize(c.frame, roi) = 0 THEN FrameLoop(c, k + 1, warned)
             \* the script holds no answer for this call
             ELSE IF run.script = <<>> THEN Raised(run, "unanswered", "")
             ELSE LET data == Head(run.script)
                      called == [run EXCEPT !.calls = Append(@, "engine"),
                                            !.passed = Append(@, <<c.f, k>>),
                                            !.script = Tail(@)]
                  IN  IF data.kind = "missing"
                      THEN Raised(called, "RuntimeError",
                                  "Tesseract not installed or not in PATH.")
                      ELSE IF data.kind = "fault"
                      THEN Raised([called EXCEPT !.calls = Append(@, "log.error")],
                                  "RuntimeError", "Error during OCR processing.")
                      ELSE LET candidate == Candidate(data)
                               result == OCRResult(c.video_id, c.clip_id, c.timestamp,
                                                   candidate.text_str,
                                                   candidate.overall_conf, roi)
                           IN  IF ~Emits(candidate, c.confidence_threshold)
                               THEN FrameLoop(c, k + 1, called)
                               ELSE IF result = None
                               THEN Raised(called, "ValueError",
                                           "OCRResult confidence must be between 0.0 and 1.0")
                               ELSE FrameLoop(c, k + 1,
                                       [called EXCEPT !.results = Append(@, Val(result)),
                                                      !.origin = Append(@, <<c.f, k>>)])

\* process_frame_for_ocr(frame, timestamp, video_id, clip_id, rois,
\* confidence_threshold), c.f being the position of the frame in its batch; the
\* results are added to those of run
ProcessFrameForOcr(c, run) ==
    IF ~ConfThresholdOk(c.confidence_threshold)
    THEN Raised(run, "ValueError", "confidence_threshold must be between 0.0 and 1.0")
    ELSE FrameLoop(c, 1, run)

\* ------------------------------------------------------------------ process_batch_for_ocr
\* FrameBatch(clip_id) after add_frame(frame, timestamp) for each frame
FrameBatch(clip_id, frames, timestamps) ==
    [clip_id |-> clip_id, frames |-> frames, timestamps |-> timestamps]

\* a call that stamps every frame with the time of the first
FrameCallFirstStamp(frame_batch, f, rois_arg, confidence_threshold) ==
    [f |-> f, frame |-> frame_batch.frames[f], timestamp |-> frame_batch.timestamps[1],
     video_id |-> frame_batch.clip_id, clip_id |-> frame_batch.clip_id,
     rois |-> rois_arg, confidence_threshold |-> confidence_threshold]
\* the call for frame f of the batch: process_frame_for_ocr(frame, ts,
\* frame_batch.clip_id, frame_batch.clip_id, rois, confidence_threshold)
FrameCall(frame_batch, f, rois_arg, confidence_threshold) ==
    [f |-> f, frame |-> frame_batch.frames[f], timestamp |-> frame_batch.timestamps[f],
     video_id |-> frame_batch.clip_id, clip_id |-> frame_batch.clip_id,
     rois |-> rois_arg, confidence_threshold |-> confidence_threshold]

RECURSIVE BatchLoop(_, _, _, _, _)
\* the loop over zip(frames, timestamps), from frame f on: all_results.extend(partial);
\* an exception of a frame leaves the loop
BatchLoop(frame_batch, rois_arg, confidence_threshold, f, run) ==
    IF f > Min({Len(frame_batch.frames), Len(frame_batch.timestamps)}) \/ run.outcome # "ok"
    THEN run
    ELSE BatchLoop(frame_batch, rois_arg, confidence_threshold, f + 1,
             ProcessFrameForOcr(
                 FrameCall(frame_batch, f, rois_arg, confidence_threshold), run))

\* process_batch_for_ocr(frame_batch, rois, confidence_threshold)
ProcessBatchForOcr(frame_batch, rois_arg, confidence_threshold, run) ==
    IF ~ConfThresholdOk(confidence_threshold)
    THEN Raised(run, "ValueError", "confidence_threshold must be between 0.0 and 1.0")
    ELSE BatchLoop(frame_batch, rois_arg, confidence_threshold, 1, run)

\* ------------------------------------------------------------------ recognition requests
\* the ROIs passed with a frame: inside every frame, inside the taller frame only,
\* beyond the right edge, left of and above the origin (where a slice would count
\* from the far edge), of no width, and of negative height (rows 0 to the last but
\* one, and no row)
RoiInputs ==
    {RoiFields(0, 0, 2, 2), RoiFields(2, 2, 2, 2), RoiFields(3, 0, 2, 2),
     RoiFields(0 - 3, 0, 2, 2), RoiFields(0, 0 - 3, 2, 2), RoiFields(0, 0, 0, 2),
     RoiFields(0, 0, 2, 0 - 1), RoiFields(0, 1, 2, 0 - 1)}

\* the sequences of at most two elements of S
UpTo2(S) == {<<>>} \cup {<<a>> : a \in S} \cup {<<a, b>> : a, b \in S}

\* the run of a request
Run(r) ==
    IF r.op = "process_frame_for_ocr"
    THEN ProcessFrameForOcr([f |-> 1, frame |-> r.frame, timestamp |-> r.timestamp,
                             video_id |-> r.video_id, clip_id |-> r.clip_id,
                             rois |-> r.rois,
                             confidence_threshold |-> r.confidence_threshold],
                            Started(r.script))
    ELSE ProcessBatchForOcr(r.frame_batch, r.rois, r.confidence_threshold,
                            Started(r.script))

\* the script of a request answers the engine calls of its run, and no other call
Answered(r) == LET run == Run(r) IN run.outcome # "unanswered" /\ run.script = <<>>

FrameRequests ==
    {r \in [op : {"process_frame_for_ocr"}, frame : Frames, timestamp : {5},
            video_id : {1}, clip_id : {7}, rois : UpTo2(RoiInputs),
            confidence_threshold : ConfThresholds, script : UpTo2(Responses)] :
        Answered(r)}

\* the answers of the engine to the calls of a batch
BatchResponses ==
    {Data(<<>>, <<>>), Data(<<<<"A">>>>, <<Some(100)>>),
     Data(<<<<"A">>, <<"B">>>>, <<Some(50), Some(100)>>), Fault}

\* the sequences of at most four elements of S
UpTo4(S) == UpTo2(S) \cup {p \o q : p \in UpTo2(S) \ {<<>>}, q \in UpTo2(S) \ {<<>>}}

\* the batches: no frame, one frame, two frames, with the timestamps of the sampler
FrameBatches ==
    {FrameBatch(clip_id, frames, [k \in 1..Len(frames) |-> 5 * (k - 1)]) :
        clip_id \in {0 - 1, 3}, frames \in UpTo2(Frames)}

BatchRequests ==
    {r \in [op : {"process_batch_for_ocr"}, frame_batch : FrameBatches,
            rois : UpTo2({RoiFields(0, 0, 2, 2), RoiFields(2, 2, 2, 2),
                          RoiFields(3, 0, 2, 2)}),
            confidence_threshold : ConfThresholds, script : UpTo4(BatchResponses)] :
        Answered(r)}

\* the call is made: its run becomes the last call
Process(op) ==
    /\ request # None
    /\ Val(request).op = op
    /\ LET run == Run(Val(request))
       IN  last' = [op |-> op, outcome |-> run.outcome, pre |-> rois,
                    calls |-> run.calls, arg |-> Val(request),
                    ret |-> [results |-> run.results, passed |-> run.passed,
                             origin |-> run.origin, message |-> run.message]]
    /\ request' = None
    /\ UNCHANGED <<db, videos, detected, clips, heap, rois, listed>>

\* ------------------------------------------------------------------ arguments of the edits
RECURSIVE Listed(_)
\* the elements of a set of numbers as an ascending list
Listed(S) == IF S = {} THEN <<>> ELSE Append(Listed(S \ {Max(S)}), Max(S))
\* the id lists passed to merge_clips: every list of two ids (in order, out of order,
\* repeated) and every strictly ascending list, the empty one included
IdLists(S) == {<<a, b>> : a, b \in S} \cup {Listed(T) : T \in SUBSET S}
\* the ids passed to merge_clips and split_clip: those the clips of the list carry, and
\* one no clip carries
IdInputs == {Val(clips[i].clip_id) : i \in {j \in 1..Len(clips) : clips[j].clip_id # None}}
            \cup {NextRowId(db.Clips)}

\* ------------------------------------------------------------------ specification
Init ==
    /\ videos = Videos
    /\ detected = {}
    /\ clips = <<>>
    /\ last = [op |-> "init", outcome |-> "ok", pre |-> <<>>, calls |-> <<>>,
               arg |-> <<>>, ret |-> <<>>]
    /\ heap = <<>>
    /\ rois = <<>>
    /\ request = None
    /\ listed = None
    \* both videos were stored when they were imported
    /\ db = ImportedDb(Cardinality(VideoIds))

\* the timeline: detection, identity assignment and the two edits
Detect ==
    \E v \in VideoIds, t \in Thresholds, ok \in BOOLEAN, r \in Reports :
        \* the report is read only when the detector ran and exited with 0
        /\ (ThresholdOk(t) /\ ok) \/ r = <<>>
        /\ ThresholdOk(t) \/ ok
        /\ DetectClips(v, t, ok, r)

Merge == \E ids \in IdLists(IdInputs) : MergeClips(ids)

Split == \E cid \in IdInputs, t \in Times : SplitClip(cid, t)

Extract ==
    \E i \in 1..Len(clips), fps \in FpsValues, dir \in TempDirs,
       trim_ok \in BOOLEAN, open_ok \in BOOLEAN, n \in StreamFrames,
       read_raises \in BOOLEAN :
        \* an outcome of the environment is drawn only where the call reaches it
        /\ (SamplingRateOk(fps) /\ clips[i].file_path = None)
           \/ (dir = (CHOOSE d \in TempDirs : TRUE) /\ trim_ok)
        /\ (SamplingRateOk(fps) /\ trim_ok) \/ open_ok
        \* the stream is as short as n only where a read of the call finds its end
        /\ IF SamplingRateOk(fps) /\ trim_ok /\ open_ok
           THEN \/ ReadFailed(Sampled(clips[i].start_time, clips[i].end_time, fps, n))
                \/ (n = Max(StreamFrames) /\ ~read_raises)
           ELSE n = 0 /\ ~read_raises
        /\ ExtractFrames(i, fps, dir, trim_ok, open_ok, n, read_raises)

\* the clip timeline: detect, store, merge, split
Next == Detect \/ Persist \/ Merge \/ Split

Spec == Init /\ [][Next]_vars

\* the frame sampler on the clips of the timeline of one video: detect, store, extract
DetectOne == detected = {} /\ Detect

NextSampler == DetectOne \/ Persist \/ Extract

SpecSampler == Init /\ [][NextSampler]_vars

\* the ROI store and the objects of its caller
InitStore ==
    /\ videos = Videos
    /\ detected = {}
    /\ clips = <<>>
    /\ last = [op |-> "init", outcome |-> "ok", pre |-> <<>>, calls |-> <<>>,
               arg |-> <<>>, ret |-> <<>>]
    /\ heap = Objects
    /\ rois = <<>>
    /\ request = None
    /\ listed = None
    /\ db = EmptyDb

AssignFields == \E o \in 1..Len(heap), fields \in RoiValues : Assign(o, fields)

Add == \E o \in Held : AddRoi(o)

NextStore == AssignFields \/ Add

SpecStore == InitStore /\ [][NextStore]_vars

\* the ROI store with its constructor, removal and listing, and a caller that changes
\* the list it got and the fields of the objects it can reach
HeldValues == {RoiFields(0, 0, 2, 2), RoiFields(0 - 1, 0, 2, 2), RoiFields(0, 0, 0, 2)}

AssignHeld == \E o \in Held, fields \in HeldValues : Assign(o, fields)

Remove == \E index \in Indices : RemoveRoi(index)

ChangeList ==
    \E items \in UpTo2(1..(Len(Objects) + 1)) \cup {<<>>} : ChangeListed(items)

New == \E initial_rois \in {<<>>} \cup {<<o>> : o \in 1..Len(Objects)} : Construct(initial_rois)

NextLists == AssignHeld \/ Add \/ Remove \/ ListRois \/ ChangeList \/ New

SpecLists == InitStore /\ [][NextLists]_vars

\* the recognition calls: a call is drawn with the answers of the engine, and made
InitOcr ==
    /\ videos = Videos
    /\ detected = {}
    /\ clips = <<>>
    /\ last = [op |-> "init", outcome |-> "ok", pre |-> <<>>, calls |-> <<>>,
               arg |-> <<>>, ret |-> <<>>]
    /\ heap = <<>>
    /\ rois = <<>>
    /\ request \in {Some(r) : r \in FrameRequests \cup BatchRequests}
    /\ listed = None
    /\ db = EmptyDb

ProcessFrame == Process("process_frame_for_ocr")

ProcessBatch == Process("process_batch_for_ocr")

NextOcr == ProcessFrame \/ ProcessBatch

SpecOcr == InitOcr /\ [][NextOcr]_vars

\* the database: rows are inserted into a new database, with keys that are stored,
\* keys that are not, and arguments the validation rejects
InitDb ==
    /\ videos = Videos
    /\ detected = {}
    /\ clips = <<>>
    /\ last = [op |-> "init", outcome |-> "ok", pre |-> EmptyDb, calls |-> <<>>,
               arg |-> <<>>, ret |-> <<>>]
    /\ heap = <<>>
    /\ rois = <<>>
    /\ request = None
    /\ listed = None
    /\ db = EmptyDb

\* the keys passed: 0 (rejected), 1 and 2 (stored once the table holds as many rows)
RowIds == 0..2

InsertVideoRow == \E source_type \in {"file", "ftp"} : InsertVideo(source_type, 10)

InsertClipRow ==
    \E video_id \in RowIds, end_time \in {0, 5} : InsertClip(video_id, 0, end_time)

InsertWatermarkRow ==
    \E video_id \in RowIds, clip_id \in 1..2, confidence \in {100, 150} :
        InsertWatermark(video_id, clip_id, confidence)

NextDb == InsertVideoRow \/ InsertClipRow \/ InsertWatermarkRow

SpecDb == InitDb /\ [][NextDb]_vars

\* ------------------------------------------------------------------ properties: detect_clips
DetectOk == last.op = "detect" /\ last.outcome = "ok"

\* two clips share a stretch of time
Overlap(a, b) ==
    Max({a.start_time, b.start_time}) < Min({a.end_time, b.end_time})

\* C1: for a scene_threshold strictly inside (0, 1) and any report, the list detect_clips
\* returns is sorted by start time, each clip ends where the next starts, no two clips
\* overlap, the first clip starts at 0.0, the last ends at video.duration, and n extracted
\* boundaries give n + 1 clips.
C1_DetectedTimeline ==
    DetectOk =>
        LET r == last.ret
        IN  /\ 0 < last.arg.scene_threshold /\ last.arg.scene_threshold < 10
            /\ Len(r) = Len(last.arg.pts_times) + 1
            /\ r[1].start_time = 0
            /\ r[Len(r)].end_time = videos[last.arg.video].duration
            /\ \A i \in 1..(Len(r) - 1) :
                   /\ r[i].start_time <= r[i + 1].start_time
                   /\ r[i].end_time = r[i + 1].start_time
            /\ \A i, j \in 1..Len(r) : i # j => ~Overlap(r[i], r[j])

\* detect_clips has returned three clips for two distinct boundaries
C1_TwoBoundaries ==
    /\ DetectOk
    /\ Len(last.arg.pts_times) = 2
    /\ last.arg.pts_times[1] < last.arg.pts_times[2]
    /\ Len(last.ret) = 3

\* C2: every clip detect_clips returns has 0 <= start_time < end_time, whatever the
\* duration (>= 0) and the boundaries reported (0.0, repeated, at or beyond the duration).
C2_DetectedClipsProper ==
    DetectOk =>
        \A i \in 1..Len(last.ret) :
            0 <= last.ret[i].start_time /\ last.ret[i].start_time < last.ret[i].end_time

\* detect_clips has returned the single clip (0.0, 0.0) for the video of duration 0.0
C2_EmptyClipReturned ==
    /\ DetectOk
    /\ videos[last.arg.video].duration = 0
    /\ last.arg.pts_times = <<>>
    /\ last.ret = <<Clip(last.arg.video, 0, 0)>>

\* ------------------------------------------------------------------ properties: coverage
\* the one-to-one listings of the index set I
Orderings(I) ==
    {f \in [1..Cardinality(I) -> I] : \A a, b \in 1..Cardinality(I) : f[a] = f[b] => a = b}

\* the clips of video v in cs cover [0, duration]: taken in order of start time, the first
\* starts at 0, each ends where the next starts, the last ends at the duration
Covers(cs, v) ==
    LET I == {i \in 1..Len(cs) : cs[i].video_id = v}
        n == Cardinality(I)
    IN  /\ I # {}
        /\ \E f \in Orderings(I) :
               /\ cs[f[1]].start_time = 0
               /\ cs[f[n]].end_time = videos[v].duration
               /\ \A k \in 1..(n - 1) :
                      /\ cs[f[k]].start_time <= cs[f[k + 1]].start_time
                      /\ cs[f[k]].end_time = cs[f[k + 1]].start_time

\* the clips ids selects in cs form one run: in order of start time each ends where the
\* next starts (a list naming a clip that is not there selects nothing)
ContiguousRun(cs, ids) ==
    LET I == {i \in 1..Len(cs) :
                 \E k \in 1..Len(ids) : cs[i].clip_id = Some(ids[k])}
        n == Cardinality(I)
    IN  \E f \in Orderings(I) :
            \A k \in 1..(n - 1) :
                /\ cs[f[k]].start_time <= cs[f[k + 1]].start_time
                /\ cs[f[k]].end_time = cs[f[k + 1]].start_time

\* C3: the list detect_clips returns covers [0, video.duration], and every split_clip,
\* every merge_clips whose selected clips form one contiguous run, and every assignment
\* of identities in between keeps the clips of each video covering [0, video.duration].
C3_CoveragePreserved ==
    [][/\ (last'.op = "detect" /\ last'.outcome = "ok") => Covers(clips', last'.arg.video)
       /\ (\/ last'.op \in {"split", "persist"}
           \/ (last'.op = "merge" /\ ContiguousRun(clips, last'.arg.ids)))
          => \A v \in detected : Covers(clips, v) => Covers(clips', v)]_vars

\* merge_clips has raised on the list [1, 1] and the only clip of the video is gone
C3_ClipLost ==
    /\ last.op = "merge" /\ last.outcome = "ValueError"
    /\ last.arg.ids = <<1, 1>>
    /\ Len(last.pre) = 1 /\ Covers(last.pre, last.pre[1].video_id)
    /\ clips = <<>>

\* ------------------------------------------------------------------ properties: merge_clips
RECURSIVE Without(_, _)
\* the list s without the elements at the indices I
Without(s, I) ==
    IF s = <<>> THEN <<>>
    ELSE Without(SubSeq(s, 1, Len(s) - 1), I)
         \o (IF Len(s) \in I THEN <<>> ELSE <<s[Len(s)]>>)

\* the indices of the clips of cs whose clip_id is in the list ids
SelectedBy(cs, ids) ==
    {i \in 1..Len(cs) : \E k \in 1..Len(ids) : cs[i].clip_id = Some(ids[k])}

\* C4: a successful merge_clips removes exactly the selected clips, leaves the others as
\* they were, and appends one clip from the least start_time to the greatest end_time of
\* the selected clips, with their video_id and no clip_id; the list gets shorter by
\* len(ids) - 1.
C4_MergeResult ==
    (last.op = "merge" /\ last.outcome = "ok") =>
        LET pre == last.pre
            sel == SelectedBy(pre, last.arg.ids)
            merged == clips[Len(clips)]
        IN  /\ Cardinality(sel) = Len(last.arg.ids)
            /\ Len(clips) = Len(pre) - (Len(last.arg.ids) - 1)
            /\ SubSeq(clips, 1, Len(clips) - 1) = Without(pre, sel)
            /\ \A i \in sel :
                   /\ merged.start_time <= pre[i].start_time
                   /\ merged.end_time >= pre[i].end_time
                   /\ merged.video_id = pre[i].video_id
            /\ \E i \in sel : merged.start_time = pre[i].start_time
            /\ \E i \in sel : merged.end_time = pre[i].end_time
            /\ merged.clip_id = None

\* merge_clips has merged two clips of a list of three
C4_MergedTwoOfThree ==
    /\ last.op = "merge" /\ last.outcome = "ok"
    /\ Len(last.arg.ids) = 2
    /\ Len(last.pre) = 3
    /\ Len(clips) = 2

\* C5: merge_clips raises ValueError when ids is empty, is not strictly ascending (out of
\* order or with a repeated id), names an id no clip of the list has, or selects clips of
\* more than one video.
C5_MergeRejects ==
    last.op = "merge" =>
        LET pre == last.pre
            ids == last.arg.ids
            sel == SelectedBy(pre, ids)
        IN  (\/ ids = <<>>
             \/ \E k \in 1..(Len(ids) - 1) : ids[k] >= ids[k + 1]
             \/ \E k \in 1..Len(ids) : \A i \in 1..Len(pre) : pre[i].clip_id # Some(ids[k])
             \/ Cardinality({pre[i].video_id : i \in sel}) > 1)
            => last.outcome = "ValueError"

\* merge_clips has raised on an ascending list of known ids that spans two videos
C5_TwoVideosRejected ==
    /\ last.op = "merge" /\ last.outcome = "ValueError"
    /\ Len(last.arg.ids) = 2 /\ last.arg.ids[1] < last.arg.ids[2]
    /\ Cardinality(SelectedBy(last.pre, last.arg.ids)) = 2
    /\ Cardinality({last.pre[i].video_id : i \in SelectedBy(last.pre, last.arg.ids)}) = 2

\* ------------------------------------------------------------------ properties: split_clip
\* C6: a successful split_clip of the clip (start, end) at t removes that clip and appends
\* the two clips (start, t) and (t, end), with the parent's video_id and no clip_id; the
\* list gets longer by one and every other clip is as it was.
C6_SplitResult ==
    (last.op = "split" /\ last.outcome = "ok") =>
        LET pre == last.pre
            t == last.arg.split_time
            first == clips[Len(clips) - 1]
            second == clips[Len(clips)]
        IN  /\ Len(clips) = Len(pre) + 1
            /\ \E i \in SelectedBy(pre, <<last.arg.clip_id_to_split>>) :
                   /\ SubSeq(clips, 1, Len(pre) - 1) = Without(pre, {i})
                   /\ first.start_time = pre[i].start_time /\ first.end_time = t
                   /\ second.start_time = t /\ second.end_time = pre[i].end_time
                   /\ first.video_id = pre[i].video_id /\ second.video_id = pre[i].video_id
                   /\ first.clip_id = None /\ second.clip_id = None

\* split_clip has split the first clip of a list of two
C6_SplitFirstOfTwo ==
    /\ last.op = "split" /\ last.outcome = "ok"
    /\ Len(last.pre) = 2
    /\ last.pre[1].clip_id = Some(last.arg.clip_id_to_split)
    /\ Len(clips) = 3

\* C7: split_clip raises ValueError when no clip of the list has the id, or when
\* split_time is not strictly between the target's start_time and end_time; whenever it
\* raises, the list is as it was.
C7_SplitRejects ==
    last.op = "split" =>
        LET pre == last.pre
            t == last.arg.split_time
            hits == SelectedBy(pre, <<last.arg.clip_id_to_split>>)
        IN  /\ (\/ hits = {}
                \/ \E i \in hits : ~(pre[i].start_time < t /\ t < pre[i].end_time))
               => last.outcome = "ValueError"
            /\ last.outcome = "ValueError" => clips = pre

\* split_clip has raised for a split_time equal to the end of the target
C7_SplitAtEndRejected ==
    /\ last.op = "split" /\ last.outcome = "ValueError"
    /\ \E i \in SelectedBy(last.pre, <<last.arg.clip_id_to_split>>) :
           last.arg.split_time = last.pre[i].end_time
    /\ clips = last.pre

\* ------------------------------------------------------------------ properties: arguments
\* C8: detect_clips with a scene_threshold outside (0, 1), 0.0 and 1.0 included, and
\* extract_frames_for_clip with sampling_rate_fps <= 0 raise ValueError before the scene
\* detector or the trim is started and before any media is opened.
C8_InvalidArgumentFirst ==
    /\ (last.op = "detect"
        /\ (last.arg.scene_threshold <= 0 \/ last.arg.scene_threshold >= 10))
       => (last.outcome = "ValueError" /\ last.calls = <<>>)
    /\ (last.op = "extract" /\ last.arg.sampling_rate_fps <= 0)
       => (last.outcome = "ValueError" /\ last.calls = <<>> /\ clips = last.pre)

\* extract_frames_for_clip has raised for a rate of 0 on a clip with no segment yet
C8_ZeroRateRejected ==
    /\ last.op = "extract" /\ last.outcome = "ValueError"
    /\ last.arg.sampling_rate_fps = 0
    /\ last.pre[last.arg.index].file_path = None
    /\ last.calls = <<>>

\* ------------------------------------------------------------------ properties: segments
HasCall(calls, c) == \E k \in 1..Len(calls) : calls[k] = c

\* C9: extract_frames_for_clip starts the trim only when clip.file_path is unset at the
\* call; once a path is recorded on a clip, no later step trims it again or changes it.
C9_SegmentSetOnce ==
    [][/\ last'.op = "extract" =>
             (HasCall(last'.calls, "trim") => clips[last'.arg.index].file_path = None)
       /\ \A i \in 1..Len(clips) :
             clips[i].file_path # None =>
                 /\ i <= Len(clips')
                 /\ clips'[i].file_path = clips[i].file_path
                 /\ (last'.op = "extract" /\ last'.arg.index = i)
                        => ~HasCall(last'.calls, "trim")]_vars

\* a second extract_frames_for_clip on a clip whose segment was recorded under the
\* placeholder name before the clip was given an identity
C9_ExtractedAgain ==
    /\ last.op = "extract" /\ last.outcome = "ok"
    /\ last.pre[last.arg.index].file_path # None
    /\ last.pre[last.arg.index].clip_id # None
    /\ Val(last.pre[last.arg.index].file_path).name = "clip_temp.mp4"

\* ------------------------------------------------------------------ properties: sampling
\* the number of reads of a call
Reads(calls) == Cardinality({k \in 1..Len(calls) : calls[k] = "read"})

\* C10: when every read succeeds, the batch holds exactly one frame for each step index
\* i >= 0 with i / fps < end - start, and frame i has timestamp start + i / fps; the
\* timestamps of a batch are strictly increasing, each is >= start and < end, and there
\* are as many timestamps as frames.
C10_SampledOnTheGrid ==
    (last.op = "extract" /\ last.outcome = "ok") =>
        LET clip == last.pre[last.arg.index]
            fps == last.arg.sampling_rate_fps
            start == ToFloat(clip.start_time)
            end == ToFloat(clip.end_time)
            ts == last.ret.timestamps
            n == Len(last.ret.frames)
            steps == {i \in 0..(n + 1) : FLess(FDiv(i, fps), FSub(end, start))}
        IN  /\ Len(ts) = n
            /\ \A k \in 1..(n - 1) : FLess(ts[k], ts[k + 1])
            /\ \A k \in 1..n : ~FLess(ts[k], start) /\ FLess(ts[k], end)
            /\ Reads(last.calls) = n =>
                   /\ Cardinality(steps) = n
                   /\ \A k \in 1..n : ts[k] = FAdd(start, FDiv(k - 1, fps))

\* the clip (0.0, 1.0) sampled at 10 frames per second, every read succeeding, has given
\* 11 frames
C10_ElevenFrames ==
    /\ last.op = "extract" /\ last.outcome = "ok"
    /\ last.pre[last.arg.index].start_time = 0
    /\ last.pre[last.arg.index].end_time = 10
    /\ last.arg.sampling_rate_fps = 10
    /\ Reads(last.calls) = Len(last.ret.frames)
    /\ Len(last.ret.frames) = 11

\* ------------------------------------------------------------------ properties: failed read
\* what the call would have sampled from a stream that never runs out
FullSample(clip, fps) ==
    Sampled(clip.start_time, clip.end_time, fps, Max(StreamFrames))

\* C11: a read that gives no frame at step k ends the sampling without an error: the batch
\* returned holds exactly the k frames read before it, in order (none when the first read
\* fails), and nothing is sought or read after the failed read.
C11_FailedReadEndsSampling ==
    (last.op = "extract" /\ HasCall(last.calls, "read") /\ last.outcome # "cv2.error") =>
        LET clip == last.pre[last.arg.index]
            full == FullSample(clip, last.arg.sampling_rate_fps)
            k == last.arg.stream
        IN  /\ last.outcome = "ok"
            /\ k < Len(full.frames) =>
                   /\ last.ret.frames = SubSeq(full.frames, 1, k)
                   /\ last.ret.timestamps = SubSeq(full.timestamps, 1, k)
                   /\ Reads(last.calls) = k + 1
                   /\ SubSeq(last.calls, Len(last.calls) - 1, Len(last.calls))
                          = <<"read", "release">>

\* a stream of two frames under a clip that asks for more: the third read has failed and
\* the batch holds two frames
C11_StoppedAfterTwo ==
    /\ last.op = "extract" /\ last.outcome = "ok"
    /\ last.arg.stream = 2
    /\ Len(FullSample(last.pre[last.arg.index], last.arg.sampling_rate_fps).frames) > 2
    /\ Len(last.ret.frames) = 2
    /\ Reads(last.calls) = 3

\* ------------------------------------------------------------------ properties: handles
\* the call has opened a capture: cv2.VideoCapture was called and isOpened() held
Opened(l) == HasCall(l.calls, "open") /\ l.outcome # "AppError"

\* C12: every capture extract_frames_for_clip has opened is released before the call
\* returns or raises, whatever the exit: completion, a read giving no frame, or an error
\* raised while reading.
C12_HandleReleased ==
    (last.op = "extract" /\ Opened(last)) => last.calls[Len(last.calls)] = "release"

\* capture.read() has raised and the call was left with the capture opened and never
\* released
C12_RaisedUnreleased ==
    /\ last.op = "extract" /\ last.outcome = "cv2.error"
    /\ HasCall(last.calls, "open")
    /\ last.calls[Len(last.calls)] = "read"
    /\ ~HasCall(last.calls, "release")
\* ------------------------------------------------------------------ properties: error reports
UserMessages ==
    {"Scene detection failed.", "Failed to trim clip.",
     "Cannot open clip file for frame extraction."}

\* C19: every application error of the core (the scene detector or the trim exiting
\* with a non-zero status, media that cannot be opened) carries a user message and,
\* apart from it, an internal diagnostic, and an error entry is written to the log
\* where the error is detected, before it reaches the caller.
C19_ErrorsCarriedAndLogged ==
    (last.op \in {"detect", "extract"} /\ last.outcome = "AppError") =>
        /\ DOMAIN last.ret = {"user_message", "internal_message"}
        /\ last.ret.user_message \in UserMessages
        /\ HasCall(last.calls, "log.error")

\* the media could not be opened: the error carries both texts, nothing was logged
C19_UnopenableUnlogged ==
    /\ last.op = "extract"
    /\ last.outcome = "AppError"
    /\ HasCall(last.calls, "open")
    /\ last.ret.user_message = "Cannot open clip file for frame extraction."
    /\ last.ret.internal_message = Val(clips[last.arg.index].file_path)
    /\ ~HasCall(last.calls, "log.error")
\* ------------------------------------------------------------------ properties: add_roi
\* the fields of the objects in the list l, in the order of the list
Stored(l) == [k \in 1..Len(l) |-> heap[l[k]]]

\* C20: add_roi raises ValueError for every ROI with x < 0, y < 0, width <= 0 or
\* height <= 0 and then leaves the list of the store as it was; an ROI with none of
\* these is appended at the end of the list.
C20_AddRoiChecks ==
    last.op = "add_roi" =>
        LET roi == last.arg.fields
        IN  IF roi.x < 0 \/ roi.y < 0 \/ roi.width <= 0 \/ roi.height <= 0
            THEN last.outcome = "ValueError" /\ rois = last.pre
            ELSE /\ last.outcome = "ok"
                 /\ rois = Append(last.pre, last.arg.roi)
                 /\ Stored(rois) = Append(Stored(last.pre), roi)

\* an ROI with y < 0 was refused by a store that holds one ROI
C20_NegativeYRefused ==
    /\ last.op = "add_roi"
    /\ last.outcome = "ValueError"
    /\ last.arg.fields.y < 0
    /\ last.arg.fields.x >= 0 /\ RoiSizeOk(last.arg.fields)
    /\ Len(last.pre) = 1
    /\ rois = last.pre
\* ------------------------------------------------------------------ properties: recognition
OcrOps == {"process_frame_for_ocr", "process_batch_for_ocr"}
FrameOk == last.op = "process_frame_for_ocr" /\ last.outcome = "ok"
Count(calls, c) == Cardinality({k \in 1..Len(calls) : calls[k] = c})

\* C13: with a confidence threshold outside [0.0, 1.0], process_frame_for_ocr and
\* process_batch_for_ocr raise ValueError and the engine is not called once, whatever
\* frames and ROIs are passed.
C13_ThresholdBeforeEngine ==
    (last.op \in OcrOps
     /\ (last.arg.confidence_threshold < 0 \/ last.arg.confidence_threshold > 200)) =>
        /\ last.outcome = "ValueError"
        /\ ~HasCall(last.calls, "engine")

\* a batch of two frames with an ROI inside both was refused for its threshold 1.5
C13_BatchRefused ==
    /\ last.op = "process_batch_for_ocr"
    /\ last.arg.confidence_threshold = 300
    /\ Len(last.arg.frame_batch.frames) = 2
    /\ last.arg.rois = <<RoiFields(0, 0, 2, 2)>>
    /\ last.outcome = "ValueError"
    /\ last.calls = <<>>

\* the positions in the results of the detections of the ROI at position k
ResultsOf(k) == {i \in 1..Len(last.ret.results) : last.ret.origin[i] = <<1, k>>}
\* the positions in the engine calls of the calls made for the ROI at position k
CallsFor(k) == {j \in 1..Len(last.ret.passed) : last.ret.passed[j] = <<1, k>>}
\* the engine returned no token, or only tokens that are blank or whose confidence
\* is not positive
NothingRead(data) ==
    \A k \in 1..Len(data.text) :
        k <= Len(data.conf) =>
            \/ data.conf[k] = None
            \/ Val(data.conf[k]) <= 0
            \/ \A n \in 1..Len(data.text[k]) : data.text[k][n] = " "

\* C14: for each ROI of a frame handed to the engine, process_frame_for_ocr emits a
\* Detection if and only if the candidate text of the ROI is not empty and its overall
\* confidence is at least the threshold; the Detection carries that text and that
\* confidence; there is at most one Detection for an ROI, and none when the engine
\* returned no token or only blank tokens or tokens of non-positive confidence.
C14_EmitsIffTextAndConfidence ==
    FrameOk =>
        \A k \in 1..Len(last.arg.rois) :
            /\ Cardinality(ResultsOf(k)) <= 1
            /\ Cardinality(CallsFor(k)) <= 1
            /\ CallsFor(k) = {} => ResultsOf(k) = {}
            /\ \A j \in CallsFor(k) :
                   LET data == last.arg.script[j]
                       candidate == Candidate(data)
                   IN  /\ ResultsOf(k) # {} <=>
                              /\ candidate.text_str # <<>>
                              /\ candidate.overall_conf >= last.arg.confidence_threshold
                       /\ NothingRead(data) => ResultsOf(k) = {}
                       /\ \A i \in ResultsOf(k) :
                              /\ last.ret.results[i].text = candidate.text_str
                              /\ last.ret.results[i].confidence = candidate.overall_conf
                              /\ last.ret.results[i].roi = last.arg.rois[k]

\* of two ROIs read as "AB" with confidence 0.75, one frame at threshold 1.0 gave no
\* Detection; of "A" at 1.0 and "AB" at 0.75 the first alone gave one
C14_OneOfTwoEmitted ==
    /\ FrameOk
    /\ last.arg.confidence_threshold = 200
    /\ Len(last.ret.passed) = 2
    /\ Candidate(last.arg.script[1]).overall_conf = 200
    /\ Candidate(last.arg.script[2]).text_str = <<"A", "B">>
    /\ Candidate(last.arg.script[2]).overall_conf = 150
    /\ Len(last.ret.results) = 1
    /\ last.ret.origin = <<last.ret.passed[1]>>
\* ------------------------------------------------------------------ properties: text and confidence
\* the tokens of the data, each with its confidence
Pairs(data) == [k \in 1..Min({Len(data.text), Len(data.conf)}) |->
                    [text |-> data.text[k], conf |-> data.conf[k]]]
\* the confidence of the token is a number
Numeric(token) == token.conf # None
\* the token goes into the text: its confidence is positive and its text is not blank
InText(token) ==
    /\ Numeric(token)
    /\ Val(token.conf) > 0
    /\ \E n \in 1..Len(token.text) : token.text[n] # " "
\* the texts of the tokens that go into the text, one after the other
Concatenation(data) ==
    LET kept == SelectSeq(Pairs(data), InText)
    IN  Join([k \in 1..Len(kept) |-> kept[k].text])
\* the mean of conf / 100 over the tokens with a confidence, in two-hundredths
MeanConfidence(data) ==
    LET counted == SelectSeq(Pairs(data), Numeric)
    IN  IF counted = <<>> THEN 0
        ELSE Sum([k \in 1..Len(counted) |-> 2 * Val(counted[k].conf)]) \div Len(counted)

\* C15, as stated: the candidate text of an ROI is the concatenation, in order and
\* without separator, of exactly the tokens with positive confidence and non-blank
\* text, and its overall confidence is the mean of conf / 100 over all the tokens
\* returned, those left out of the text included, or 0.0 when there is none.
C15_ConcatenatedTokens ==
    FrameOk =>
        \A k \in 1..Len(last.arg.rois) : \A j \in CallsFor(k) :
            LET data == last.arg.script[j]
            IN  /\ ResultsOf(k) # {} <=>
                       /\ Concatenation(data) # <<>>
                       /\ MeanConfidence(data) >= last.arg.confidence_threshold
                /\ \A i \in ResultsOf(k) :
                       /\ last.ret.results[i].text = Concatenation(data)
                       /\ last.ret.results[i].confidence = MeanConfidence(data)

\* C15, amended: the candidate text is that concatenation with the blanks at its two
\* ends removed; the overall confidence is the mean over the tokens whose confidence
\* is a number, or 0.0 when there is none.
C15_TrimmedConcatenation ==
    FrameOk =>
        \A k \in 1..Len(last.arg.rois) : \A j \in CallsFor(k) :
            LET data == last.arg.script[j]
            IN  /\ ResultsOf(k) # {} <=>
                       /\ Strip(Concatenation(data)) # <<>>
                       /\ MeanConfidence(data) >= last.arg.confidence_threshold
                /\ \A i \in ResultsOf(k) :
                       /\ last.ret.results[i].text = Strip(Concatenation(data))
                       /\ last.ret.results[i].confidence = MeanConfidence(data)

\* the tokens " B" (1.0) and "A " (0.5) gave the text "BA" with confidence 0.75
C15_TrimmedText ==
    /\ FrameOk
    /\ Len(last.arg.script) = 1
    /\ last.arg.script[1].text = <<<<" ", "B">>, <<"A", " ">>>>
    /\ Len(last.ret.results) = 1
    /\ last.ret.results[1].text = <<"B", "A">>
    /\ last.ret.results[1].confidence = 150

\* ------------------------------------------------------------------ properties: skipped ROIs
\* the frames of the call
ArgFrames ==
    IF last.op = "process_frame_for_ocr" THEN <<last.arg.frame>>
    ELSE last.arg.frame_batch.frames
\* the <<frame, ROI>> positions of the call
Positions == (1..Len(ArgFrames)) \X (1..Len(last.arg.rois))
PassedSet == {last.ret.passed[j] : j \in 1..Len(last.ret.passed)}
\* every engine call of the script returns data
AllData == \A j \in 1..Len(last.arg.script) : last.arg.script[j].kind = "data"
\* x >= 0, y >= 0, x + w <= frame width and y + h <= frame height
WithinFrame(frame, roi) ==
    /\ roi.x >= 0 /\ roi.y >= 0
    /\ roi.x + roi.width <= frame.width
    /\ roi.y + roi.height <= frame.height
\* the indices start <= i < start + length of an axis of n entries, an end below 0
\* counting from the far end of the axis
Span(start, length, n) ==
    LET stop == IF start + length < 0 THEN start + length + n ELSE start + length
    IN  {i \in 0..(n - 1) : start <= i /\ i < stop}
\* the crop of the ROI holds a pixel
CropHasPixels(frame, roi) ==
    /\ Span(roi.y, roi.height, frame.height) # {}
    /\ Span(roi.x, roi.width, frame.width) # {}
\* the ROIs in Eligible, and no other, were handed to the engine, each once and in the
\* order of the frames and of the ROIs; the call ended without an error, with one
\* warning for each other ROI and no Detection from it
PassedExactly(Eligible(_, _)) ==
    /\ last.outcome = "ok"
    /\ \A p \in Positions :
           p \in PassedSet <=> Eligible(ArgFrames[p[1]], last.arg.rois[p[2]])
    /\ Len(last.ret.passed) = Cardinality(PassedSet)
    /\ Count(last.calls, "engine") = Len(last.ret.passed)
    /\ Count(last.calls, "log.warning") = Cardinality(Positions \ PassedSet)
    /\ \A i \in 1..Len(last.ret.origin) : last.ret.origin[i] \in PassedSet

\* C16, as stated: an ROI (x, y, w, h) is handed to the engine if and only if x >= 0,
\* y >= 0, x + w <= frame width and y + h <= frame height; any other ROI is skipped
\* without an error, an engine call or a Detection, and the other ROIs of the frame
\* and the other frames of the batch are still processed.
C16_PassedIffWithinFrame ==
    (last.op \in OcrOps /\ ConfThresholdOk(last.arg.confidence_threshold) /\ AllData) =>
        PassedExactly(WithinFrame)

InFrameWithPixels(frame, roi) == WithinFrame(frame, roi) /\ CropHasPixels(frame, roi)

\* C16, amended: an ROI is handed to the engine if and only if it lies within the
\* frame and its crop holds at least one pixel.
C16_PassedIffCropInFrame ==
    (last.op \in OcrOps /\ ConfThresholdOk(last.arg.confidence_threshold) /\ AllData) =>
        PassedExactly(InFrameWithPixels)

\* an ROI of width 0 was skipped with a warning, the ROI after it was read
C16_EmptyCropSkipped ==
    /\ FrameOk
    /\ last.arg.rois = <<RoiFields(0, 0, 0, 2), RoiFields(0, 0, 2, 2)>>
    /\ last.ret.passed = <<<<1, 2>>>>
    /\ last.calls = <<"log.warning", "engine">>
    /\ Len(last.ret.results) = 1

\* ------------------------------------------------------------------ properties: batch order
\* C17: the Detections of process_batch_for_ocr are in the order of the frames and,
\* within a frame, in the order of the rois argument; each carries the timestamp of
\* its frame, and its video_id and its clip_id are the clip_id of the batch.
C17_BatchOrder ==
    (last.op = "process_batch_for_ocr" /\ last.outcome = "ok") =>
        LET batch == last.arg.frame_batch
            results == last.ret.results
            origin == last.ret.origin
        IN  /\ \A i \in 1..Len(results) :
                   /\ results[i].timestamp = batch.timestamps[origin[i][1]]
                   /\ results[i].video_id = batch.clip_id
                   /\ results[i].clip_id = batch.clip_id
                   /\ results[i].roi = last.arg.rois[origin[i][2]]
            /\ \A i, n \in 1..Len(results) :
                   i < n =>
                       /\ \/ origin[i][1] < origin[n][1]
                          \/ origin[i][1] = origin[n][1] /\ origin[i][2] < origin[n][2]
                       /\ results[i].timestamp <= results[n].timestamp

\* two frames and two ROIs gave four Detections
C17_FourDetections ==
    /\ last.op = "process_batch_for_ocr"
    /\ last.outcome = "ok"
    /\ last.ret.origin = <<<<1, 1>>, <<1, 2>>, <<2, 1>>, <<2, 2>>>>
    /\ last.arg.rois[1] # last.arg.rois[2]

\* ------------------------------------------------------------------ properties: engine errors
\* the engine call that ended the run of the last call
LastAnswer == last.arg.script[Len(last.arg.script)]
\* the request of the last call, with a fault of the engine in the place of its last
\* answer
WithFault ==
    [last.arg EXCEPT !.script = SubSeq(@, 1, Len(@) - 1) \o <<Fault>>]

\* C18: when the recognition runtime is missing, process_frame_for_ocr fails with an
\* outcome of another kind than the one it gives for any other fault of the engine;
\* the other fault is logged before it is raised again.
C18_MissingRuntimeDistinct ==
    (last.op = "process_frame_for_ocr" /\ last.arg.script # <<>>) =>
        /\ LastAnswer.kind = "missing" =>
               /\ last.outcome # "ok"
               /\ last.outcome # Run(WithFault).outcome
        /\ LastAnswer.kind = "fault" =>
               /\ last.outcome # "ok"
               /\ SubSeq(last.calls, Len(last.calls) - 1, Len(last.calls))
                      = <<"engine", "log.error">>

\* the missing runtime and a fault both end the call with RuntimeError; the messages
\* alone differ
C18_SameKind ==
    /\ last.op = "process_frame_for_ocr"
    /\ last.arg.script = <<Missing>>
    /\ last.outcome = "RuntimeError"
    /\ Run(WithFault).outcome = "RuntimeError"
    /\ last.ret.message = "Tesseract not installed or not in PATH."
    /\ Run(WithFault).message = "Error during OCR processing."
    /\ ~HasCall(last.calls, "log.error")
\* ------------------------------------------------------------------ properties: merge without contiguity
\* ids is a strictly ascending list of identities of clips of cs, all of one video
ValidSelection(cs, ids) ==
    /\ ids # <<>>
    /\ \A k \in 1..(Len(ids) - 1) : ids[k] < ids[k + 1]
    /\ \A k \in 1..Len(ids) : \E i \in 1..Len(cs) : cs[i].clip_id = Some(ids[k])
    /\ Cardinality({cs[i].video_id : i \in SelectedBy(cs, ids)}) = 1

\* C26: merge_clips does not check contiguity: on every strictly ascending list of
\* identities of clips of the list, all of one video, it succeeds, whether or not the
\* selected clips are adjacent in time (the merged clip may then overlap a clip of the
\* video that was not selected and stays in the list).
C26_MergeWithoutContiguity ==
    (last.op = "merge" /\ ValidSelection(last.pre, last.arg.ids)) => last.outcome = "ok"

\* the first and the last of three clips were merged, and the merged clip overlaps the
\* clip in the middle, which is still in the list
C26_EnvelopeOverlaps ==
    /\ last.op = "merge" /\ last.outcome = "ok"
    /\ ~ContiguousRun(last.pre, last.arg.ids)
    /\ \E i \in 1..(Len(clips) - 1) :
           /\ clips[i].video_id = clips[Len(clips)].video_id
           /\ \E n \in 1..Len(last.pre) : last.pre[n] = clips[i]
           /\ Overlap(clips[i], clips[Len(clips)])

\* ------------------------------------------------------------------ properties: markers
\* C27: detect_clips takes as a boundary every value that follows a timestamp marker in
\* the report, with or without a fractional part, and nothing else of the report: it
\* returns as many clips as the report has markers, plus one.
C27_EveryMarkerABoundary ==
    DetectOk => Len(last.ret) = last.arg.markers + 1

\* the report held a marker with a whole number, and the video came back as one clip
C27_WholeNumberIgnored ==
    /\ DetectOk
    /\ last.arg.markers = 1
    /\ last.arg.pts_times = <<>>
    /\ Len(last.ret) = 1

\* ------------------------------------------------------------------ properties: failed merge
\* C28: when merge_clips raises, the list passed to it is as it was before the call: no
\* clip was removed and none was added.
C28_FailedMergeKeepsList ==
    (last.op = "merge" /\ last.outcome # "ok") => clips = last.pre

\* merge_clips has raised on a list that repeats an identity, and of the two clips of
\* the list the one named is gone
C28_PartlyRemoved ==
    /\ last.op = "merge" /\ last.outcome = "ValueError"
    /\ Len(last.arg.ids) = 2 /\ last.arg.ids[1] = last.arg.ids[2]
    /\ Len(last.pre) = 2
    /\ Len(clips) = 1
    /\ \A i \in 1..Len(clips) : clips[i].clip_id # Some(last.arg.ids[1])

\* ------------------------------------------------------------------ properties: failed extraction
\* C29: when extract_frames_for_clip raises (invalid rate, failed trim, segment that
\* cannot be opened), clip.file_path is what it was before the call.
C29_FailedExtractKeepsPath ==
    (last.op = "extract" /\ last.outcome \in {"ValueError", "AppError"}) =>
        clips[last.arg.index].file_path = last.pre[last.arg.index].file_path

\* the trim succeeded, the segment could not be opened: the path is recorded
C29_PathRecordedOnFailure ==
    /\ last.op = "extract" /\ last.outcome = "AppError"
    /\ HasCall(last.calls, "trim") /\ HasCall(last.calls, "open")
    /\ last.pre[last.arg.index].file_path = None
    /\ clips[last.arg.index].file_path # None

\* ------------------------------------------------------------------ properties: segment files
\* C30: two distinct clips whose segments were written into the same directory have
\* different file_path values, also when neither has an identity.
C30_SegmentFilesDistinct ==
    \A i, n \in 1..Len(clips) :
        (i # n /\ clips[i].file_path # None /\ clips[n].file_path # None) =>
            clips[i].file_path # clips[n].file_path

\* two clips without identity have the same segment file, written by two trims
C30_SharedPlaceholder ==
    /\ last.op = "extract" /\ HasCall(last.calls, "trim")
    /\ \E n \in 1..Len(clips) :
           /\ n # last.arg.index
           /\ clips[n].clip_id = None /\ clips[last.arg.index].clip_id = None
           /\ clips[n].file_path # None
           /\ clips[n].file_path = clips[last.arg.index].file_path
           /\ Val(clips[n].file_path).name = "clip_temp.mp4"
\* ------------------------------------------------------------------ properties: list_rois
\* the objects of the list the caller got
ListedObjects ==
    IF listed = None THEN {} ELSE {Val(listed)[k] : k \in 1..Len(Val(listed))}

\* C21: list_rois returns an independent copy: whatever the caller does to the list it
\* got (adding, removing or reordering entries, changing the fields of an ROI of it),
\* the list of the store and the fields of the ROIs in it stay as they were.
C21_ListedCopyIndependent ==
    [][(\/ last'.op = "change_list"
        \/ last'.op = "assign" /\ last'.arg.roi \in ListedObjects)
       => /\ rois' = rois
          /\ [k \in 1..Len(rois') |-> heap'[rois'[k]]] = Stored(rois)]_vars

\* the caller set the width of an ROI it reached through the list alone to 0, and the
\* ROI of the store has width 0
C21_FieldChangeReachesStore ==
    /\ last.op = "assign"
    /\ last.arg.roi > Len(Objects)
    /\ last.arg.roi \in ListedObjects
    /\ last.arg.fields.width = 0
    /\ \E k \in 1..Len(rois) : rois[k] = last.arg.roi /\ Stored(rois)[k].width = 0

\* ------------------------------------------------------------------ properties: remove_roi
\* C22: on a store of n ROIs, remove_roi(index) raises IndexError and leaves the store
\* as it was for every index < 0 and every index >= n; for an index in 0..n-1 it
\* removes the entry at that position and keeps the others in their order.
C22_RemoveChecksIndex ==
    last.op = "remove_roi" =>
        IF last.arg.index < 0 \/ last.arg.index >= Len(last.pre)
        THEN last.outcome = "IndexError" /\ rois = last.pre
        ELSE /\ last.outcome = "ok"
             /\ rois = RemoveAt(last.pre, last.arg.index + 1)

\* remove_roi(-1) has removed the last of two ROIs
C22_NegativeIndexRemoves ==
    /\ last.op = "remove_roi"
    /\ last.arg.index = 0 - 1
    /\ last.outcome = "ok"
    /\ Len(last.pre) = 2
    /\ rois = <<last.pre[1]>>

\* ------------------------------------------------------------------ properties: stored ROIs
\* C24: after any sequence of constructions of the store (with or without
\* initial_rois), add_roi and remove_roi calls, and changes by the caller to ROI
\* objects it passed in or got listed, every ROI of the store has x >= 0, y >= 0,
\* width > 0 and height > 0.
C24_StoredRoisValid ==
    \A k \in 1..Len(rois) :
        /\ heap[rois[k]].x >= 0 /\ heap[rois[k]].y >= 0
        /\ heap[rois[k]].width > 0 /\ heap[rois[k]].height > 0

\* the caller set the width of an ROI it had passed to add_roi to 0
C24_InvalidAfterAssign ==
    /\ last.op = "assign"
    /\ last.arg.roi <= Len(Objects)
    /\ last.arg.fields.width = 0
    /\ \E k \in 1..Len(rois) : rois[k] = last.arg.roi
    /\ ~C24_StoredRoisValid
\* ------------------------------------------------------------------ properties: Detections
\* the confidences the engine gave in the call are numbers from -1 to 100, or unreadable
EngineConfsInRange ==
    \A j \in 1..Len(last.arg.script) : \A k \in 1..Len(last.arg.script[j].conf) :
        LET conf_str == last.arg.script[j].conf[k]
        IN  conf_str # None => (0 - 1 <= Val(conf_str) /\ Val(conf_str) <= 100)

\* C23: no Detection has an empty text or a confidence outside [0.0, 1.0]: the
\* constructor refuses both, and with engine confidences from -1 to 100 and a threshold
\* in [0, 1] every Detection process_frame_for_ocr and process_batch_for_ocr return
\* has a text that is not empty and 0.0 <= confidence <= 1.0, the constructor never
\* failing inside the call.
C23_DetectionsWellFormed ==
    /\ \A roi \in RoiInputs :
           /\ OCRResult(1, 7, 5, <<>>, 100, roi) = None
           /\ OCRResult(1, 7, 5, <<"A">>, 0 - 1, roi) = None
           /\ OCRResult(1, 7, 5, <<"A">>, 201, roi) = None
    /\ (last.op \in OcrOps /\ ConfThresholdOk(last.arg.confidence_threshold)
        /\ EngineConfsInRange) =>
           /\ last.outcome # "ValueError"
           /\ \A i \in 1..Len(last.ret.results) :
                  /\ last.ret.results[i].text # <<>>
                  /\ 0 <= last.ret.results[i].confidence
                  /\ last.ret.results[i].confidence <= 200

\* a Detection of confidence 1.0, and one of confidence 0.495 from the engine
\* confidences 100 and -1
C23_ConfidenceAtTheEnds ==
    /\ FrameOk
    /\ Len(last.ret.results) = 2
    /\ last.ret.results[1].confidence = 200
    /\ last.ret.results[2].confidence = 99
    /\ last.arg.script[2].conf = <<Some(100), Some(0 - 1)>>

\* ------------------------------------------------------------------ C25
\* every reference of a stored row is the key of a stored row
StoredReferences ==
    /\ \A c \in 1..Len(db.Clips) :
          \E v \in 1..Len(db.Videos) : db.Videos[v].video_id = db.Clips[c].video_id
    /\ \A w \in 1..Len(db.Watermarks) :
          /\ \E v \in 1..Len(db.Videos) : db.Videos[v].video_id = db.Watermarks[w].video_id
          /\ \E c \in 1..Len(db.Clips) : db.Clips[c].clip_id = db.Watermarks[w].clip_id

\* the last call named a video or a clip the database did not hold
NamesUnstored ==
    \/ /\ last.op = "insert_clip"
       /\ ~(\E k \in 1..Len(last.pre.Videos) : last.pre.Videos[k].video_id = last.arg.video_id)
    \/ /\ last.op = "insert_watermark"
       /\ \/ ~(\E k \in 1..Len(last.pre.Videos) :
                  last.pre.Videos[k].video_id = last.arg.video_id)
          \/ ~(\E k \in 1..Len(last.pre.Clips) : last.pre.Clips[k].clip_id = last.arg.clip_id)

\* the arguments of the last call are those the validation of the method accepts
PassesValidation ==
    \/ /\ last.op = "insert_clip"
       /\ last.arg.video_id >= 1 /\ last.arg.start_time >= 0
       /\ last.arg.end_time > last.arg.start_time
    \/ /\ last.op = "insert_watermark"
       /\ last.arg.video_id >= 1 /\ last.arg.clip_id >= 1
       /\ last.arg.confidence >= 0 /\ last.arg.confidence <= 100

\* C25: after any sequence of insert_video, insert_clip and insert_watermark calls
\* every row of Clips references a row of Videos and every row of Watermarks
\* references a row of Videos and a row of Clips; an insert that names a video or a
\* clip that is not stored fails and adds no row, with sqlite3.IntegrityError when
\* its arguments pass the validation.
C25_ReferencesStored ==
    /\ StoredReferences
    /\ NamesUnstored =>
          /\ last.outcome \in {"IntegrityError", "ValueError"}
          /\ db = last.pre
          /\ PassesValidation => last.outcome = "IntegrityError"

\* C25 as stated: every insert that names a video or a clip that is not stored fails
\* with sqlite3.IntegrityError.  insert_clip(0, ...) names no stored video and raises
\* ValueError, as does a call whose other arguments the validation rejects.
C25_UnstoredIsIntegrityError ==
    /\ StoredReferences
    /\ NamesUnstored => last.outcome = "IntegrityError" /\ db = last.pre

\* a watermark is refused for a clip that is not stored, in a database that holds a
\* video, a clip and a watermark
C25_UnstoredClipRefused ==
    /\ last.op = "insert_watermark" /\ last.outcome = "IntegrityError"
    /\ last.arg.video_id = 1 /\ last.arg.clip_id = 2
    /\ Len(db.Videos) >= 1 /\ Len(db.Clips) = 1 /\ Len(db.Watermarks) = 1
    /\ db = last.pre

====
